---- MODULE Spec2Model ----
(***************************************************************************)
(* Model of the buff-aggregation and time-window sweep engine of           *)
(* nikke/nikke_dmg.py: ModifierCache (add_buff / remove_buff), the damage  *)
(* formula (compute_damage, compute_damage_matrix, matrix_avg_dmg) and the *)
(* two sweeps compute_dps_window_n2 / compute_dps_window_nlogn.            *)
(*                                                                         *)
(* Numbers.  Python floats are modelled as exact rationals <<n, d>> (d > 0,*)
(* lowest terms); the aggregate's fields and the buff effects are whole    *)
(* numbers.  Times are integers; math.inf / -math.inf are the two sentinel *)
(* values PosInf / NegInf, larger / smaller than every finite time.        *)
(***************************************************************************)
EXTENDS Integers, Sequences, FiniteSets, TLC

(***************************************************************************)
(* Bounds of the model.                                                    *)
(***************************************************************************)
MaxBuffs == 2
MaxOps == 2

(***************************************************************************)
(* Exact rational arithmetic standing for float arithmetic.                *)
(***************************************************************************)
Abs(n) == IF n < 0 THEN -n ELSE n

RECURSIVE Gcd(_, _)
Gcd(a, b) == IF b = 0 THEN a ELSE Gcd(b, a % b)

QNorm(n, d) ==
    LET g == Gcd(Abs(n), Abs(d))
        s == IF d < 0 THEN -1 ELSE 1
    IN  IF n = 0 THEN <<0, 1>> ELSE <<s * (n \div g), s * (d \div g)>>

Q(n) == <<n, 1>>

QMul(x, y) ==
    LET g1 == Gcd(Abs(x[1]), y[2])
        g2 == Gcd(Abs(y[1]), x[2])
        a == IF x[1] = 0 THEN 0 ELSE x[1] \div g1
        c == IF y[1] = 0 THEN 0 ELSE y[1] \div g2
    IN  IF x[1] = 0 \/ y[1] = 0 THEN <<0, 1>>
        ELSE <<a * c, (x[2] \div g2) * (y[2] \div g1)>>

QAdd(x, y) ==
    LET g == Gcd(x[2], y[2])
    IN  QNorm(x[1] * (y[2] \div g) + y[1] * (x[2] \div g), (x[2] \div g) * y[2])

QNeg(x) == <<-x[1], x[2]>>

QSub(x, y) == QAdd(x, QNeg(y))

\* x / y for y # 0
QDiv(x, y) ==
    IF y[1] < 0 THEN QMul(x, <<-y[2], -y[1]>>) ELSE QMul(x, <<y[2], y[1]>>)

QLe(x, y) == QSub(x, y)[1] <= 0

QLt(x, y) == QSub(x, y)[1] < 0

QMin(x, y) == IF QLe(x, y) THEN x ELSE y

QMax(x, y) == IF QLe(x, y) THEN y ELSE x

(***************************************************************************)
(* Times: math.inf and -math.inf.                                          *)
(***************************************************************************)
PosInf == 1000
NegInf == -1000

isinf(t) == t = PosInf \/ t = NegInf

\* float addition of a time and a duration, one of which may be infinite
TimeAdd(a, b) ==
    IF a = PosInf \/ b = PosInf THEN PosInf
    ELSE IF a = NegInf \/ b = NegInf THEN NegInf
    ELSE a + b

Min(a, b) == IF a <= b THEN a ELSE b

Max(a, b) == IF a >= b THEN a ELSE b

(***************************************************************************)
(* Python values that are tested with isinstance: the value of an override *)
(* field of a buff (bool, int or anything else) and the buffs argument of  *)
(* add_buffs (None, a dict or a list).                                     *)
(***************************************************************************)
PyBool(b) == [type |-> "bool", val |-> IF b THEN 1 ELSE 0]

PyInt(n) == [type |-> "int", val |-> n]

PyFloat(n) == [type |-> "float", val |-> n]

\* isinstance(val, int): bool is a subclass of int
isinstance_int(v) == v.type \in {"bool", "int"}

PyNone == [kind |-> "None"]

PyList(s) == [kind |-> "list", v |-> s]

PyDict(b) == [kind |-> "dict", v |-> b]

Has(buff, key) == key \in DOMAIN buff

(***************************************************************************)
(* ModifierCache                                                           *)
(***************************************************************************)
ModifierCache(modifiers, crit_rate, crit_dmg, core_dmg, range_dmg, full_burst_dmg) ==
    [attack |-> modifiers[1],
     charge_dmg |-> modifiers[2],
     damage_taken |-> modifiers[3],
     element_dmg |-> modifiers[4],
     damage_up |-> modifiers[5],
     defense |-> modifiers[6],
     flat_atk |-> modifiers[7],
     crit_rate |-> crit_rate,
     crit_dmg |-> crit_dmg,
     core_dmg |-> core_dmg,
     range_dmg |-> range_dmg,
     full_burst_dmg |-> full_burst_dmg,
     core_hit |-> 0,
     range_bonus |-> 0,
     full_burst |-> 0,
     element_bonus |-> 0]

\* buff.get('stacks', 1)
Stacks(buff) == IF Has(buff, "stacks") THEN buff.stacks ELSE 1

\* the override value counted once per stack
OverrideVal_stacks(buff, key) ==
    IF Has(buff, key)
    THEN (IF isinstance_int(buff[key]) THEN buff[key].val ELSE 1) * Stacks(buff)
    ELSE 0

\* val if isinstance(val, int) else 1
OverrideVal(buff, key) ==
    IF Has(buff, key)
    THEN (IF isinstance_int(buff[key]) THEN buff[key].val ELSE 1)
    ELSE 0

\* buff[key] * stacks when the key is present
Eff(buff, key) == IF Has(buff, key) THEN buff[key] * Stacks(buff) ELSE 0

\* add_buff with each of core_dmg, range_dmg and full_burst_dmg added to the
\* aggregate field of the same name
add_buff_split(c, buff) ==
    [c EXCEPT
        !.attack = @ + Eff(buff, "attack"),
        !.charge_dmg = @ + Eff(buff, "charge_dmg")
                         + (IF Has(buff, "full_charge_dmg")
                            THEN (buff.full_charge_dmg - 100) * Stacks(buff) ELSE 0),
        !.damage_taken = @ + Eff(buff, "damage_taken"),
        !.element_dmg = @ + Eff(buff, "element_dmg"),
        !.damage_up = @ + Eff(buff, "damage_up"),
        !.defense = @ + Eff(buff, "defense"),
        !.flat_atk = @ + Eff(buff, "flat_atk"),
        !.crit_rate = @ + Eff(buff, "crit_rate"),
        !.crit_dmg = @ + Eff(buff, "crit_dmg"),
        !.core_dmg = @ + Eff(buff, "core_dmg"),
        !.range_dmg = @ + Eff(buff, "range_dmg"),
        !.full_burst_dmg = @ + Eff(buff, "full_burst_dmg"),
        !.core_hit = @ + OverrideVal(buff, "core_hit"),
        !.range_bonus = @ + OverrideVal(buff, "range_bonus"),
        !.full_burst = @ + OverrideVal(buff, "full_burst"),
        !.element_bonus = @ + OverrideVal(buff, "element_bonus")]

add_buff(c, buff) ==
    [c EXCEPT
        !.attack = @ + Eff(buff, "attack"),
        !.charge_dmg = @ + Eff(buff, "charge_dmg")
                         + (IF Has(buff, "full_charge_dmg")
                            THEN (buff.full_charge_dmg - 100) * Stacks(buff) ELSE 0),
        !.damage_taken = @ + Eff(buff, "damage_taken"),
        !.element_dmg = @ + Eff(buff, "element_dmg"),
        !.damage_up = @ + Eff(buff, "damage_up"),
        !.defense = @ + Eff(buff, "defense"),
        !.flat_atk = @ + Eff(buff, "flat_atk"),
        !.crit_rate = @ + Eff(buff, "crit_rate"),
        !.crit_dmg = @ + Eff(buff, "crit_dmg") + Eff(buff, "core_dmg")
                       + Eff(buff, "range_dmg") + Eff(buff, "full_burst_dmg"),
        !.core_hit = @ + OverrideVal(buff, "core_hit"),
        !.range_bonus = @ + OverrideVal(buff, "range_bonus"),
        !.full_burst = @ + OverrideVal(buff, "full_burst"),
        !.element_bonus = @ + OverrideVal(buff, "element_bonus")]

remove_buff_nostacks(c, buff) ==
    [c EXCEPT
        !.attack = @ - (IF Has(buff, "attack") THEN buff.attack ELSE 0),
        !.charge_dmg = @ - Eff(buff, "charge_dmg")
                         - (IF Has(buff, "full_charge_dmg")
                            THEN (buff.full_charge_dmg - 100) * Stacks(buff) ELSE 0),
        !.damage_taken = @ - Eff(buff, "damage_taken"),
        !.element_dmg = @ - Eff(buff, "element_dmg"),
        !.damage_up = @ - Eff(buff, "damage_up"),
        !.defense = @ - Eff(buff, "defense"),
        !.flat_atk = @ - Eff(buff, "flat_atk"),
        !.crit_rate = @ - Eff(buff, "crit_rate"),
        !.crit_dmg = @ - Eff(buff, "crit_dmg") - Eff(buff, "core_dmg")
                       - Eff(buff, "range_dmg") - Eff(buff, "full_burst_dmg"),
        !.core_hit = @ - OverrideVal(buff, "core_hit"),
        !.range_bonus = @ - OverrideVal(buff, "range_bonus"),
        !.full_burst = @ - OverrideVal(buff, "full_burst"),
        !.element_bonus = @ - OverrideVal(buff, "element_bonus")]

remove_buff(c, buff) ==
    [c EXCEPT
        !.attack = @ - Eff(buff, "attack"),
        !.charge_dmg = @ - Eff(buff, "charge_dmg")
                         - (IF Has(buff, "full_charge_dmg")
                            THEN (buff.full_charge_dmg - 100) * Stacks(buff) ELSE 0),
        !.damage_taken = @ - Eff(buff, "damage_taken"),
        !.element_dmg = @ - Eff(buff, "element_dmg"),
        !.damage_up = @ - Eff(buff, "damage_up"),
        !.defense = @ - Eff(buff, "defense"),
        !.flat_atk = @ - Eff(buff, "flat_atk"),
        !.crit_rate = @ - Eff(buff, "crit_rate"),
        !.crit_dmg = @ - Eff(buff, "crit_dmg") - Eff(buff, "core_dmg")
                       - Eff(buff, "range_dmg") - Eff(buff, "full_burst_dmg"),
        !.core_hit = @ - OverrideVal(buff, "core_hit"),
        !.range_bonus = @ - OverrideVal(buff, "range_bonus"),
        !.full_burst = @ - OverrideVal(buff, "full_burst"),
        !.element_bonus = @ - OverrideVal(buff, "element_bonus")]

\* for i in range(start, end): self.add_buff(buffs[i])   (0-based, end exclusive)
RECURSIVE add_range(_, _, _, _)
add_range(c, list, start, end) ==
    IF start >= end THEN c
    ELSE add_range(add_buff(c, list[start + 1]), list, start + 1, end)

RECURSIVE remove_range(_, _, _, _)
remove_range(c, list, start, end) ==
    IF start >= end THEN c
    ELSE remove_range(remove_buff(c, list[start + 1]), list, start + 1, end)

\* add_buffs(buffs): a dict is one buff, a list is added in order, anything
\* else (None) is ignored
add_buffs(c, list) ==
    IF list.kind = "dict" THEN add_buff(c, list.v)
    ELSE IF list.kind = "list" THEN add_range(c, list.v, 0, Len(list.v))
    ELSE c

\* remove_buffs(buffs): a dict is one buff, anything else is iterated
remove_buffs(c, list) ==
    IF list.kind = "dict" THEN remove_buff(c, list.v)
    ELSE remove_range(c, list.v, 0, Len(list.v))

Baseline == <<100, 100, 100, 110, 100, 100, 0>>

generate_cache_with(list, crit_rate, crit_dmg, core_dmg, range_dmg, full_burst_dmg) ==
    add_buffs(ModifierCache(Baseline, crit_rate, crit_dmg, core_dmg,
                            range_dmg, full_burst_dmg), list)

generate_cache(list) == generate_cache_with(list, 15, 50, 100, 30, 50)

(***************************************************************************)
(* Damage formula                                                          *)
(***************************************************************************)
\* line 440: base_mod += calc.range_bonus / 100.0
RangeTerm(calc) == QNorm(calc.range_bonus, 100)

\* min(1.0, calc.crit_rate / 100.0)
CritRateP(calc) == QMin(Q(1), QNorm(calc.crit_rate, 100))

\* max(0.0, calc.crit_dmg / 100.0)
CritDmgP(calc) == QMax(Q(0), QNorm(calc.crit_dmg, 100))

\* the element factor: 1.0 unless the flag or the counter asks for the bonus
ElementFactor(calc, element_bonus) ==
    IF ~element_bonus /\ calc.element_bonus <= 0 THEN Q(1)
    ELSE QNorm(calc.element_dmg, 100)

\* base_mod of lines 436-442
BaseMod3(calc, m2, full_burst) ==
    IF full_burst \/ calc.full_burst > 0
    THEN QAdd(m2, QNorm(calc.full_burst_dmg, 100)) ELSE m2

BaseMod2(calc, m1, range_bonus, full_burst) ==
    BaseMod3(calc,
             IF range_bonus \/ calc.range_bonus > 0
             THEN QAdd(m1, RangeTerm(calc)) ELSE m1,
             full_burst)

BaseMod(calc, core_hit, range_bonus, full_burst) ==
    BaseMod2(calc,
             IF core_hit \/ calc.core_hit > 0
             THEN QAdd(Q(1), QNorm(calc.core_dmg, 100)) ELSE Q(1),
             range_bonus, full_burst)

\* base_dmg of lines 421-434
BaseDmg(calc, damage, atk, def, element_bonus) ==
    QMul(QMul(QMul(QMul(QMul(
        QAdd(QSub(QNorm(atk * calc.attack, 100),
                  QNorm(-(def * calc.defense), 100)),
             Q(calc.flat_atk)),
        QNorm(calc.charge_dmg, 100)),
        QNorm(calc.damage_taken, 100)),
        ElementFactor(calc, element_bonus)),
        QNorm(calc.damage_up, 100)),
        QNorm(damage, 100))

\* the copy of the aggregate compute_damage works on (lines 414-420); the
\* caller's cache is deep-copied, never changed
CalcOf(list, c) ==
    IF c.kind = "None"
    THEN generate_cache(IF list.kind = "None" THEN PyList(<<>>) ELSE list)
    ELSE add_buffs(c.v, IF list.kind = "None" THEN PyList(<<>>) ELSE list)

\* lines 446-447
AvgMod(base_mod, crit_mod, crit_rate_p) ==
    QAdd(QMul(base_mod, QSub(Q(1), crit_rate_p)), QMul(crit_mod, crit_rate_p))

\* line 449: base_dmg * np.array([base_mod, crit_mod, avg_mod])
Scaled(base_dmg, base_mod, crit_mod, crit_rate_p) ==
    <<QMul(base_dmg, base_mod), QMul(base_dmg, crit_mod),
      QMul(base_dmg, AvgMod(base_mod, crit_mod, crit_rate_p))>>

WithMods(calc, base_dmg, base_mod) ==
    Scaled(base_dmg, base_mod, QAdd(base_mod, CritDmgP(calc)), CritRateP(calc))

DamageOf(calc, damage, atk, def, core_hit, range_bonus, full_burst, element_bonus) ==
    WithMods(calc, BaseDmg(calc, damage, atk, def, element_bonus),
             BaseMod(calc, core_hit, range_bonus, full_burst))

\* returns <<no-crit, crit, average>>
compute_damage(damage, atk, def, list, core_hit, range_bonus, full_burst, element_bonus, c) ==
    DamageOf(CalcOf(list, c), damage, atk, def,
             core_hit, range_bonus, full_burst, element_bonus)

\* a Python string built by += and cut by [:-1], kept as its sequence of pieces
RECURSIVE StrJoin(_)
StrJoin(pieces) ==
    IF pieces = <<>> THEN "" ELSE Head(pieces) \o StrJoin(Tail(pieces))

\* get_bonus_tag without the 'elem_' piece
get_bonus_tag_noelem(core_hit, range_bonus, full_burst, element_bonus) ==
    LET t1 == IF core_hit THEN <<"core", "_">> ELSE <<>>
        t2 == IF range_bonus THEN t1 \o <<"range", "_">> ELSE t1
        tag == IF full_burst THEN t2 \o <<"fb", "_">> ELSE t2
    IN  IF tag # <<>> THEN StrJoin(SubSeq(tag, 1, Len(tag) - 1)) ELSE "base"

get_bonus_tag(core_hit, range_bonus, full_burst, element_bonus) ==
    LET t1 == IF core_hit THEN <<"core", "_">> ELSE <<>>
        t2 == IF range_bonus THEN t1 \o <<"range", "_">> ELSE t1
        t3 == IF full_burst THEN t2 \o <<"fb", "_">> ELSE t2
        tag == IF element_bonus THEN t3 \o <<"elem", "_">> ELSE t3
    IN  IF tag # <<>> THEN StrJoin(SubSeq(tag, 1, Len(tag) - 1)) ELSE "base"

\* the 16 flag combinations in the order of the four nested loops
Flags == <<FALSE, TRUE>>

Combo(index) ==
    [core_hit |-> Flags[((index \div 8) % 2) + 1],
     range_bonus |-> Flags[((index \div 4) % 2) + 1],
     full_burst |-> Flags[((index \div 2) % 2) + 1],
     element_bonus |-> Flags[(index % 2) + 1]]

ComboTag(index) ==
    get_bonus_tag(Combo(index).core_hit, Combo(index).range_bonus,
                  Combo(index).full_burst, Combo(index).element_bonus)

\* the labels of the 16 combinations, and for each label the last index that
\* is stored under it (ret[tag] = ... overwrites an earlier entry)
ComboLabels == [index \in 0..15 |-> ComboTag(index)]

Labels == {ComboLabels[index] : index \in 0..15}

LastIndex ==
    [tag \in Labels |-> CHOOSE index \in 0..15 :
                            /\ ComboLabels[index] = tag
                            /\ \A j \in 0..15 : ComboLabels[j] = tag => j <= index]

\* the cache as compute_damage would leave it if it scaled the caller's
\* object and not a deep copy of it (lines 421-427 applied in place)
MatrixCache_inplace(list, c) ==
    IF c.kind # "None"
    THEN [add_buffs(c.v, list) EXCEPT !.charge_dmg = @ \div 100,
                                      !.damage_taken = @ \div 100,
                                      !.damage_up = @ \div 100]
    ELSE generate_cache(list)

\* the aggregate compute_damage_matrix evaluates against: the caller's cache
\* after cache.add_buffs(buffs), or a fresh one (lines 506-509)
MatrixCache(list, c) ==
    IF c.kind # "None" THEN add_buffs(c.v, list)
    ELSE generate_cache(list)

\* one entry of ret (lines 533-538)
Entry(index, dmg) ==
    [index |-> index, base |-> dmg[1], crit |-> dmg[2], avg |-> dmg[3]]

EntryAt(index, damage, atk, def, calc) ==
    Entry(index, DamageOf(calc, damage, atk, def,
                          Combo(index).core_hit, Combo(index).range_bonus,
                          Combo(index).full_burst, Combo(index).element_bonus))

\* ret of compute_damage_matrix without its 'matrix' entry: label -> entry.
\* Every call of compute_damage gets cache=cache and no buffs, so it works on
\* a copy of the cache as it is after line 507.
compute_damage_matrix(damage, atk, def, list, c) ==
    [tag \in Labels |->
        EntryAt(LastIndex[tag], damage, atk, def,
                CalcOf(PyNone, [kind |-> "cache", v |-> MatrixCache(list, c)]))]

\* ret['matrix']: row index holds the triple of combination index (line 539)
MatrixRows(damage, atk, def, list, c) ==
    [index \in 0..15 |->
        DamageOf(CalcOf(PyNone, [kind |-> "cache", v |-> MatrixCache(list, c)]),
                 damage, atk, def,
                 Combo(index).core_hit, Combo(index).range_bonus,
                 Combo(index).full_burst, Combo(index).element_bonus)]

\* matrix_avg_dmg over the weight map, kept as the sequence of its items;
\* a label missing from the matrix is a KeyError, and the key 'matrix' holds
\* the 16x3 array, which a string cannot index (IndexError)
RECURSIVE SumItems(_, _, _, _)
SumItems(matrix, items, total_dmg, total_ratio) ==
    IF items = <<>> THEN [kind |-> "ok", total_dmg |-> total_dmg, total_ratio |-> total_ratio]
    ELSE IF Head(items)[1] = "matrix"
         THEN [kind |-> "IndexError", total_dmg |-> total_dmg, total_ratio |-> total_ratio]
    ELSE IF Head(items)[1] \notin Labels
         THEN [kind |-> "KeyError", total_dmg |-> total_dmg, total_ratio |-> total_ratio]
    ELSE SumItems(matrix, Tail(items),
                  QAdd(total_dmg, QMul(matrix[Head(items)[1]].avg, Q(Head(items)[2]))),
                  total_ratio + Head(items)[2])

\* the return of matrix_avg_dmg without the division of line 553
Normalized_nodiv(s, norm) ==
    IF s.kind # "ok" THEN [kind |-> s.kind, val |-> Q(0)]
    ELSE [kind |-> "float", val |-> s.total_dmg]

Normalized(s, norm) ==
    IF s.kind # "ok" THEN [kind |-> s.kind, val |-> Q(0)]
    ELSE IF norm /\ s.total_ratio # 0
         THEN [kind |-> "float", val |-> QDiv(s.total_dmg, Q(s.total_ratio))]
    ELSE [kind |-> "float", val |-> s.total_dmg]

matrix_avg_dmg(matrix, tags, norm) ==
    Normalized(SumItems(matrix, tags, Q(0), 0), norm)

accumulate_avg_dmg(damage, atk, def, list, tags, norm, c) ==
    matrix_avg_dmg(compute_damage_matrix(damage, atk, def, list, c), tags, norm)

(***************************************************************************)
(* Timeline helpers                                                        *)
(***************************************************************************)
InSeq(x, s) == \E k \in 1..Len(s) : s[k] = x

\* insertion of x behind every element whose key is <= key(x): with InsertBy
\* applied left to right this is Python's stable sorted(list, key=...)
RECURSIVE InsertBy(_, _, _)
InsertBy(s, x, key) ==
    IF s = <<>> THEN <<x>>
    ELSE IF Head(s)[key] <= x[key] THEN <<Head(s)>> \o InsertBy(Tail(s), x, key)
    ELSE <<x>> \o s

RECURSIVE SortedFrom(_, _, _)
SortedFrom(acc, rest, key) ==
    IF rest = <<>> THEN acc
    ELSE SortedFrom(InsertBy(acc, Head(rest), key), Tail(rest), key)

sorted(list, key) == SortedFrom(<<>>, list, key)

\* np.sort of an array of numbers
RECURSIVE InsertNum(_, _)
InsertNum(s, x) ==
    IF s = <<>> THEN <<x>>
    ELSE IF Head(s) <= x THEN <<Head(s)>> \o InsertNum(Tail(s), x)
    ELSE <<x>> \o s

RECURSIVE np_sort_from(_, _)
np_sort_from(acc, rest) ==
    IF rest = <<>> THEN acc
    ELSE np_sort_from(InsertNum(acc, Head(rest)), Tail(rest))

np_sort(a) == np_sort_from(<<>>, a)

\* the loop of get_unique_times over the buffs (lines 577-587)
RECURSIVE UniqueLoop(_, _, _, _)
UniqueLoop(unique_times, list, ws, we) ==
    IF list = <<>> THEN unique_times
    ELSE
        LET start == Head(list).start
            end == Head(list).end
            u1 == IF ~isinf(start) /\ ws < start /\ start < we
                     /\ ~InSeq(start, unique_times)
                  THEN Append(unique_times, start) ELSE unique_times
            u2 == IF ~isinf(end) /\ ws < end /\ end < we /\ ~InSeq(end, u1)
                  THEN Append(u1, end) ELSE u1
        IN  UniqueLoop(u2, Tail(list), ws, we)

get_unique_times(list, ws, we) ==
    LET u0 == IF ~isinf(ws) THEN <<ws>> ELSE <<>>
        u1 == IF ~isinf(we) THEN Append(u0, we) ELSE u0
    IN  UniqueLoop(u1, list, ws, we)

\* lines 726-731 of compute_dps_window_n2: the sub-intervals [t_0, t_1]
RECURSIVE N2Windows(_, _, _)
N2Windows(acc, t_0, points) ==
    IF points = <<>> THEN acc
    ELSE IF t_0 >= Head(points) THEN N2Windows(acc, t_0, Tail(points))
    ELSE N2Windows(Append(acc, <<t_0, Head(points)>>), Head(points), Tail(points))

\* the window list with the isinf test of get_unique_times applied to the
\* buff's start as well: a buff that never started is left out
RECURSIVE WindowOf_finite(_, _)
WindowOf_finite(list, t_0) ==
    IF list = <<>> THEN <<>>
    ELSE IF ~isinf(Head(list).start) /\ t_0 >= Head(list).start /\ t_0 < Head(list).end
         THEN <<Head(list)>> \o WindowOf_finite(Tail(list), t_0)
    ELSE WindowOf_finite(Tail(list), t_0)

\* the window list of lines 738-741: the buffs active at t_0, in list order
RECURSIVE WindowOf(_, _)
WindowOf(list, t_0) ==
    IF list = <<>> THEN <<>>
    ELSE IF t_0 >= Head(list).start /\ t_0 < Head(list).end
         THEN <<Head(list)>> \o WindowOf(Tail(list), t_0)
    ELSE WindowOf(Tail(list), t_0)

\* the cursor loop with > in place of >=: a buff starting exactly at prev is
\* left for the next sub-interval
RECURSIVE Advance_strict(_, _, _, _)
Advance_strict(list, index, key, prev) ==
    IF index >= Len(list) THEN -1
    ELSE IF prev > list[index + 1][key] THEN Advance_strict(list, index + 1, key, prev)
    ELSE index

\* a cursor that counts the buffs active at prev instead of the buffs passed
Advance_active(list, index, key, prev) ==
    Cardinality({k \in 1..Len(list) : list[k].start <= prev /\ prev < list[k].end})

\* the while loops of lines 641-646: the cursor after the loop, or -1 when
\* the loop reads list[len(list)] (IndexError)
RECURSIVE Advance(_, _, _, _)
Advance(list, index, key, prev) ==
    IF index >= Len(list) THEN -1
    ELSE IF prev >= list[index + 1][key] THEN Advance(list, index + 1, key, prev)
    ELSE index

AdvanceGuarded(list, index, key, prev) ==
    IF index < Len(list) THEN Advance(list, index, key, prev) ELSE index

\* the fields of a damage tag read at lines 663-667 / 744-748
TagDuration(dmg_tag) == IF Has(dmg_tag, "duration") THEN dmg_tag.duration ELSE 0

TagEnd(dmg_tag) ==
    IF Has(dmg_tag, "end") THEN dmg_tag.end
    ELSE IF ~isinf(TagDuration(dmg_tag))
         THEN TimeAdd(dmg_tag.start, TagDuration(dmg_tag))
    ELSE PosInf

\* line 670 / 750: the tag is skipped in the sub-interval [t_0, t_1]
TagSkipped(dmg_tag, t_0, t_1) == dmg_tag.start >= t_1 \/ TagEnd(dmg_tag) < t_0

\* lines 684-688 / 764-768: what one evaluated tag adds to its accumulator
TagDurationIn(dmg_tag, t_0, t_1) ==
    IF TagDuration(dmg_tag) # 0
    THEN Min(TagEnd(dmg_tag), t_1) - Max(dmg_tag.start, t_0)
    ELSE 0

TagAmount(dmg_tag, dmg, t_0, t_1) ==
    IF TagDurationIn(dmg_tag, t_0, t_1) > 0
    THEN QMul(dmg, Q(TagDurationIn(dmg_tag, t_0, t_1)))
    ELSE dmg

\* st is the record [results, evals, added, err] of one sub-interval's loop
\* over the damage tags; k is the 1-based position of the tag
\* the accumulation with every amount added to the first entry of results
TagAdd_first(st, k, amount) ==
    [st EXCEPT !.results[1] = QAdd(@, amount),
               !.evals[k] = @ + 1,
               !.added[k] = amount]

TagAdd(st, k, amount) ==
    [st EXCEPT !.results[k] = QAdd(@, amount),
               !.evals[k] = @ + 1,
               !.added[k] = amount]

TagAccum(st, k, dmg_tag, r, t_0, t_1) ==
    IF r.kind # "float" THEN [st EXCEPT !.err = r.kind]
    ELSE TagAdd(st, k, TagAmount(dmg_tag, r.val, t_0, t_1))

TagStep(st, k, dmg_tag, atk, def, norm, c, t_0, t_1) ==
    IF TagSkipped(dmg_tag, t_0, t_1) THEN st
    ELSE TagAccum(st, k, dmg_tag,
                  accumulate_avg_dmg(dmg_tag.damage, atk, def, PyNone,
                                     dmg_tag.tags, norm, [kind |-> "cache", v |-> c]),
                  t_0, t_1)

\* the loop over the damage tags inside one sub-interval (lines 662-688 and
\* 743-768, the same code in both sweeps)
RECURSIVE TagLoop(_, _, _, _, _, _, _, _, _)
TagLoop(st, k, tags, atk, def, norm, c, t_0, t_1) ==
    IF k > Len(tags) \/ st.err # "none" THEN st
    ELSE TagLoop(TagStep(st, k, tags[k], atk, def, norm, c, t_0, t_1),
                 k + 1, tags, atk, def, norm, c, t_0, t_1)

\* np.sum(results)
RECURSIVE np_sum(_)
np_sum(a) == IF a = <<>> THEN Q(0) ELSE QAdd(Head(a), np_sum(Tail(a)))

(***************************************************************************)
(* State                                                                   *)
(***************************************************************************)
VARIABLES
    \* the arguments of the sweeps
    damage_tags, attack, defense, buffs, window_start, window_end,
    accumulate, normalize,
    \* the locals of the running sweep
    pc, time_points, time_windows, buff_windows, add_sorted, sub_buffs,
    add_index, sub_index, prev_time, i, cache, results,
    \* what each sweep returned or raised
    ret_n2, ret_nlogn,
    \* per tag: evaluations so far in the running sweep, amount added in the
    \* last sub-interval
    evals, added,
    \* one call of compute_damage and its result
    call, total_dmg,
    \* the add_buff / remove_buff calls made on cache so far (in the
    \* linearithmic sweep: on its running aggregate)
    ops,
    \* what the function called on top of the sweeps or of the damage formula
    \* (compute_dps_window, compare_dps_window_alg, compute_damage_matrix)
    \* returned or raised
    ret_call,
    \* NIKKEConfig.buffs: the pending buff table of the config object, as the
    \* sequence of its (key, item) entries in insertion order
    self_buffs

args == <<damage_tags, attack, defense, buffs, window_start, window_end,
          accumulate, normalize>>

locals == <<time_points, time_windows, buff_windows, add_sorted, sub_buffs,
            add_index, sub_index, prev_time, i, cache, results>>

sweepvars == <<pc, locals, ret_n2, ret_nlogn, evals, added>>

vars == <<args, sweepvars, call, total_dmg, ops, ret_call, self_buffs>>

(***************************************************************************)
(* Inputs                                                                  *)
(***************************************************************************)
\* three sample instants; every finite start, end and window bound is one
Times == {0, 1, 2}

Starts == Times \cup {NegInf}

Ends == Times \cup {PosInf}

Intervals == {iv \in Starts \X Ends : iv[1] < iv[2]}

\* the effects of the k-th buff of a sweep input (the third exists only when
\* MaxBuffs allows it)
SweepEffects(k) ==
    IF k % 3 = 1 THEN [start |-> 0, end |-> 1, attack |-> 20]
    ELSE IF k % 3 = 2 THEN [start |-> 0, end |-> 1, attack |-> 10, stacks |-> 2,
                            core_hit |-> PyBool(TRUE)]
    ELSE [start |-> 0, end |-> 1, crit_rate |-> -20, full_charge_dmg |-> 150]

At(b, iv) == [b EXCEPT !.start = iv[1], !.end = iv[2]]

\* lists of well-formed buffs (start < end), of every length up to MaxBuffs
BuffLists ==
    UNION {{[k \in 1..n |-> At(SweepEffects(k), ivs[k])] : ivs \in [1..n -> Intervals]} :
           n \in 0..MaxBuffs}

\* lists of three buffs of which the first two share a start, an end or
\* both, and the third starts after both have ended
TiedBuffLists ==
    {<<At(SweepEffects(1), iv[1]), At(SweepEffects(2), iv[2]),
       At(SweepEffects(3), <<2, PosInf>>)>> :
        iv \in {<<0, 1>>, <<0, 2>>, <<NegInf, 1>>} \X {<<0, 1>>, <<0, 2>>, <<NegInf, 1>>}}

\* damage tags with canonical labels
InstantTag(s) == [damage |-> 100, start |-> s, duration |-> 0,
                  tags |-> <<<<"base", 1>>>>]

SustainedTag(s, d) == [damage |-> 50, start |-> s, duration |-> d,
                       tags |-> <<<<"core", 3>>, <<"base", 1>>>>]

TagLists == {<<InstantTag(1), SustainedTag(0, 1)>>,
             <<SustainedTag(1, PosInf), InstantTag(2)>>}

Windows == {w \in Starts \X Ends : w[1] <= w[2]}

Zeros(n) == [k \in 1..n |-> Q(0)]

NoRet == [kind |-> "none", val |-> <<>>]

NoCall == [damage |-> 0, attack |-> 0, defense |-> 0, buffs |-> PyNone,
           core_hit |-> FALSE, range_bonus |-> FALSE, full_burst |-> FALSE,
           element_bonus |-> FALSE, cache |-> PyNone]

LocalsInit ==
    /\ time_points = <<>>
    /\ time_windows = <<>>
    /\ buff_windows = <<>>
    /\ add_sorted = <<>>
    /\ sub_buffs = <<>>
    /\ add_index = 0
    /\ sub_index = 0
    /\ prev_time = 0
    /\ i = 0
    /\ results = <<>>

(***************************************************************************)
(* The two sweeps, run one after the other on the same arguments.          *)
(***************************************************************************)
Init ==
    /\ damage_tags \in TagLists
    /\ attack = 1000
    /\ defense = 100
    /\ buffs \in BuffLists \cup TiedBuffLists
    /\ \E w \in Windows : window_start = w[1] /\ window_end = w[2]
    /\ accumulate \in BOOLEAN
    /\ normalize = TRUE
    /\ pc = "n2"
    /\ LocalsInit
    /\ cache = generate_cache(PyList(<<>>))
    /\ ret_n2 = NoRet
    /\ ret_nlogn = NoRet
    /\ evals = <<>>
    /\ added = <<>>
    /\ call = NoCall
    /\ total_dmg = <<>>
    /\ ops = <<>>
    /\ ret_call = NoRet
    /\ self_buffs = <<>>

\* the value a sweep returns (lines 689 / 769)
Returned(res) ==
    IF accumulate THEN [kind |-> "float", val |-> np_sum(res)]
    ELSE [kind |-> "array", val |-> res]

Raised(name) == [kind |-> name, val |-> <<>>]

\* a sweep has returned a value
IsValue(ret) == ret.kind \in {"float", "array"}

\* compute_dps_window_n2, lines 719-735, when time_points is not empty
N2Timeline ==
    /\ pc = "n2"
    /\ LET tp == np_sort(get_unique_times(buffs, window_start, window_end))
       IN  /\ tp # <<>>
           /\ time_points' = tp
           /\ time_windows' = N2Windows(<<>>, tp[1], tp)
    /\ results' = Zeros(Len(damage_tags))
    /\ evals' = [k \in 1..Len(damage_tags) |-> 0]
    /\ added' = Zeros(Len(damage_tags))
    /\ i' = 0
    /\ pc' = "n2_loop"
    /\ UNCHANGED <<args, buff_windows, add_sorted, sub_buffs, add_index, sub_index,
                   prev_time, cache, ret_n2, ret_nlogn, call, total_dmg, ops, ret_call,
                   self_buffs>>

\* line 726: time_points[0] of an empty array
N2TimelineRaise ==
    /\ pc = "n2"
    /\ np_sort(get_unique_times(buffs, window_start, window_end)) = <<>>
    /\ ret_n2' = Raised("IndexError")
    /\ evals' = [k \in 1..Len(damage_tags) |-> 0]
    /\ added' = Zeros(Len(damage_tags))
    /\ pc' = "nlogn"
    /\ UNCHANGED <<args, locals, ret_nlogn, call, total_dmg, ops, ret_call,
                   self_buffs>>

\* the state after one sub-interval evaluated with aggregate c
Commit(c, st) ==
    /\ cache' = c
    /\ results' = st.results
    /\ evals' = st.evals
    /\ added' = st.added
    /\ i' = IF st.err = "none" THEN i + 1 ELSE i

Evaluate(c, t_0, t_1) ==
    TagLoop([results |-> results, evals |-> evals,
             added |-> [k \in 1..Len(damage_tags) |-> Q(0)], err |-> "none"],
            1, damage_tags, attack, defense, normalize, c, t_0, t_1)

\* one iteration of the timeline loop, lines 737-768
N2Window ==
    /\ pc = "n2_loop"
    /\ i < Len(time_windows)
    /\ \E c \in {generate_cache(PyList(WindowOf(buffs, time_windows[i + 1][1])))} :
       \E st \in {Evaluate(c, time_windows[i + 1][1], time_windows[i + 1][2])} :
          /\ Commit(c, st)
          /\ pc' = IF st.err = "none" THEN pc ELSE "nlogn"
          /\ ret_n2' = IF st.err = "none" THEN ret_n2 ELSE Raised(st.err)
    /\ UNCHANGED <<args, time_points, time_windows, buff_windows, add_sorted,
                   sub_buffs, add_index, sub_index, prev_time, ret_nlogn,
                   call, total_dmg, ops, ret_call, self_buffs>>

\* line 769
N2Return ==
    /\ pc = "n2_loop"
    /\ i = Len(time_windows)
    /\ ret_n2' = Returned(results)
    /\ pc' = "nlogn"
    /\ UNCHANGED <<args, locals, ret_nlogn, evals, added, call, total_dmg, ops, ret_call,
                   self_buffs>>

\* compute_dps_window_nlogn, lines 618-633, when time_points is not empty
NlognTimeline ==
    /\ pc = "nlogn"
    /\ add_sorted' = sorted(buffs, "start")
    /\ sub_buffs' = sorted(buffs, "end")
    /\ LET tp == np_sort(get_unique_times(add_sorted', window_start, window_end))
       IN  /\ tp # <<>>
           /\ time_points' = tp
           /\ prev_time' = tp[1]
    /\ time_windows' = <<>>
    /\ buff_windows' = <<>>
    /\ add_index' = 0
    /\ sub_index' = 0
    /\ i' = 1
    /\ results' = <<>>
    /\ evals' = [k \in 1..Len(damage_tags) |-> 0]
    /\ added' = Zeros(Len(damage_tags))
    /\ pc' = "nlogn_cursor"
    /\ UNCHANGED <<args, cache, ret_n2, ret_nlogn, call, total_dmg, ops, ret_call,
                   self_buffs>>

\* line 629: np.zeros((len(time_points) - 1, 2)) with no time point
NlognTimelineRaise ==
    /\ pc = "nlogn"
    /\ np_sort(get_unique_times(sorted(buffs, "start"), window_start, window_end)) = <<>>
    /\ add_sorted' = sorted(buffs, "start")
    /\ sub_buffs' = sorted(buffs, "end")
    /\ ret_nlogn' = Raised("ValueError")
    /\ evals' = [k \in 1..Len(damage_tags) |-> 0]
    /\ added' = Zeros(Len(damage_tags))
    /\ pc' = "done"
    /\ UNCHANGED <<args, time_points, time_windows, buff_windows, add_index,
                   sub_index, prev_time, i, cache, results, ret_n2,
                   call, total_dmg, ops, ret_call, self_buffs>>

\* one iteration of the loop of lines 634-649
NlognCursor ==
    /\ pc = "nlogn_cursor"
    /\ i < Len(time_points)
    /\ LET curr_time == time_points[i + 1]
           a == AdvanceGuarded(add_sorted, add_index, "start", prev_time)
           r == AdvanceGuarded(sub_buffs, sub_index, "end", prev_time)
       IN  /\ a # -1
           /\ r # -1
           /\ time_windows' = Append(time_windows, <<prev_time, curr_time>>)
           /\ buff_windows' = Append(buff_windows, <<add_index, a, sub_index, r>>)
           /\ add_index' = a
           /\ sub_index' = r
           /\ prev_time' = curr_time
    /\ i' = i + 1
    /\ UNCHANGED <<args, pc, time_points, add_sorted, sub_buffs, cache, results,
                   ret_n2, ret_nlogn, evals, added, call, total_dmg, ops, ret_call,
                   self_buffs>>

\* lines 642 / 645: the cursor runs off the end of the sorted list
NlognCursorRaise ==
    /\ pc = "nlogn_cursor"
    /\ i < Len(time_points)
    /\ LET a == AdvanceGuarded(add_sorted, add_index, "start", prev_time)
           r == AdvanceGuarded(sub_buffs, sub_index, "end", prev_time)
       IN  /\ a = -1 \/ r = -1
           /\ add_index' = IF a = -1 THEN Len(add_sorted) ELSE a
           /\ sub_index' = IF a = -1 THEN sub_index
                           ELSE Len(sub_buffs)
    /\ ret_nlogn' = Raised("IndexError")
    /\ pc' = "done"
    /\ UNCHANGED <<args, time_points, time_windows, buff_windows, add_sorted,
                   sub_buffs, prev_time, i, cache, results, ret_n2, evals, added,
                   call, total_dmg, ops, ret_call, self_buffs>>

\* lines 652-653
NlognBegin ==
    /\ pc = "nlogn_cursor"
    /\ i = Len(time_points)
    /\ results' = Zeros(Len(damage_tags))
    /\ cache' = generate_cache(PyList(<<>>))
    /\ i' = 0
    /\ pc' = "nlogn_loop"
    /\ UNCHANGED <<args, time_points, time_windows, buff_windows, add_sorted,
                   sub_buffs, add_index, sub_index, prev_time, ret_n2, ret_nlogn,
                   evals, added, call, total_dmg, ops, ret_call, self_buffs>>

\* lines 656-659: the running aggregate after the adds and removes of the
\* sub-interval whose index ranges are bw = (add_s, add_e, sub_s, sub_e)
Removed(c, bw) ==
    IF bw[4] > bw[3] THEN remove_range(c, sub_buffs, bw[3], bw[4]) ELSE c

Updated(c, bw) ==
    Removed(IF bw[2] > bw[1] THEN add_range(c, add_sorted, bw[1], bw[2]) ELSE c, bw)

\* the add_buff (remove_buff) calls that add_buffs (remove_buffs) makes for
\* list[s] .. list[e - 1] in the sub-interval number at
CacheCalls(op, list, s, e, at) ==
    IF e > s THEN [k \in 1..(e - s) |-> [op |-> op, buff |-> list[s + k], at |-> at]]
    ELSE <<>>

\* one iteration of the loop of lines 654-688
NlognWindow ==
    /\ pc = "nlogn_loop"
    /\ i < Len(time_windows)
    /\ ops' = ops \o CacheCalls("add", add_sorted, buff_windows[i + 1][1],
                                buff_windows[i + 1][2], i + 1)
                  \o CacheCalls("remove", sub_buffs, buff_windows[i + 1][3],
                                buff_windows[i + 1][4], i + 1)
    /\ \E c \in {Updated(cache, buff_windows[i + 1])} :
       \E st \in {Evaluate(c, time_windows[i + 1][1], time_windows[i + 1][2])} :
          /\ Commit(c, st)
          /\ pc' = IF st.err = "none" THEN pc ELSE "done"
          /\ ret_nlogn' = IF st.err = "none" THEN ret_nlogn ELSE Raised(st.err)
    /\ UNCHANGED <<args, time_points, time_windows, buff_windows, add_sorted,
                   sub_buffs, add_index, sub_index, prev_time, ret_n2,
                   call, total_dmg, ret_call, self_buffs>>

\* line 689
NlognReturn ==
    /\ pc = "nlogn_loop"
    /\ i = Len(time_windows)
    /\ ret_nlogn' = Returned(results)
    /\ pc' = "done"
    /\ UNCHANGED <<args, locals, ret_n2, evals, added, call, total_dmg, ops, ret_call,
                   self_buffs>>

Next ==
    \/ N2Timeline
    \/ N2TimelineRaise
    \/ N2Window
    \/ N2Return
    \/ NlognTimeline
    \/ NlognTimelineRaise
    \/ NlognCursor
    \/ NlognCursorRaise
    \/ NlognBegin
    \/ NlognWindow
    \/ NlognReturn

Spec == Init /\ [][Next]_vars

(***************************************************************************)
(* One call of compute_damage on drawn arguments.                          *)
(***************************************************************************)
DamageBuffs ==
    { [crit_rate |-> -20],
      [crit_rate |-> 100, crit_dmg |-> -80],
      [range_bonus |-> PyBool(TRUE), range_dmg |-> 10],
      [element_bonus |-> PyInt(1), element_dmg |-> 10, flat_atk |-> 500],
      [defense |-> -50, attack |-> 20, stacks |-> 2],
      [core_hit |-> PyBool(FALSE), full_burst |-> PyFloat(2), damage_up |-> 10] }

DamageLists == {PyNone, PyList(<<>>)} \cup {PyList(<<b>>) : b \in DamageBuffs}

DamageCaches ==
    {PyNone, [kind |-> "cache", v |-> generate_cache(PyList(<<>>))],
     [kind |-> "cache", v |-> generate_cache(PyList(<<[charge_dmg |-> 50]>>))]}

Calls ==
    [damage : {100, 250}, attack : {100000, 1000}, defense : {10000, 0},
     buffs : DamageLists, core_hit : BOOLEAN, range_bonus : BOOLEAN,
     full_burst : BOOLEAN, element_bonus : BOOLEAN, cache : DamageCaches]

SweepIdle ==
    /\ damage_tags = <<>>
    /\ attack = 0
    /\ defense = 0
    /\ buffs = <<>>
    /\ window_start = NegInf
    /\ window_end = PosInf
    /\ accumulate = TRUE
    /\ normalize = TRUE
    /\ LocalsInit
    /\ ret_n2 = NoRet
    /\ ret_nlogn = NoRet
    /\ evals = <<>>
    /\ added = <<>>

InitDamage ==
    /\ SweepIdle
    /\ pc = "call"
    /\ cache = generate_cache(PyList(<<>>))
    /\ call \in Calls
    /\ total_dmg = <<>>
    /\ ops = <<>>
    /\ ret_call = NoRet
    /\ self_buffs = <<>>

ComputeDamage ==
    /\ pc = "call"
    /\ total_dmg' = compute_damage(call.damage, call.attack, call.defense, call.buffs,
                                   call.core_hit, call.range_bonus, call.full_burst,
                                   call.element_bonus, call.cache)
    /\ pc' = "returned"
    /\ UNCHANGED <<args, locals, ret_n2, ret_nlogn, evals, added, call, ops, ret_call,
                   self_buffs>>

NextDamage == ComputeDamage

SpecDamage == InitDamage /\ [][NextDamage]_vars

(***************************************************************************)
(* add_buff / remove_buff calls on one ModifierCache.                      *)
(***************************************************************************)
CacheBuffs ==
    { [attack |-> 20],
      [attack |-> 20, charge_dmg |-> 10, full_charge_dmg |-> 150, stacks |-> 2],
      [damage_taken |-> 5, element_dmg |-> 8, damage_up |-> 7, defense |-> -10,
       flat_atk |-> 300],
      [crit_rate |-> 12, crit_dmg |-> 25, core_dmg |-> 10, range_dmg |-> 4,
       full_burst_dmg |-> 6, stacks |-> 3],
      [core_hit |-> PyBool(TRUE), range_bonus |-> PyInt(2),
       full_burst |-> PyFloat(2), element_bonus |-> PyBool(FALSE), stacks |-> 2] }

InitCache ==
    /\ SweepIdle
    /\ pc = "cache"
    /\ cache \in {generate_cache(PyList(<<>>)),
                  generate_cache_with(PyList(<<>>), 0, 100, 120, 40, 60)}
    /\ call = NoCall
    /\ total_dmg = <<>>
    /\ ops = <<>>
    /\ ret_call = NoRet
    /\ self_buffs = <<>>

AddBuff(b) ==
    /\ pc = "cache"
    /\ Len(ops) < MaxOps
    /\ cache' = add_buff(cache, b)
    /\ ops' = Append(ops, [op |-> "add", buff |-> b, before |-> cache])
    /\ UNCHANGED <<args, pc, time_points, time_windows, buff_windows, add_sorted,
                   sub_buffs, add_index, sub_index, prev_time, i, results,
                   ret_n2, ret_nlogn, evals, added, call, total_dmg, ret_call,
                   self_buffs>>

RemoveBuff(b) ==
    /\ pc = "cache"
    /\ Len(ops) < MaxOps
    /\ cache' = remove_buff(cache, b)
    /\ ops' = Append(ops, [op |-> "remove", buff |-> b, before |-> cache])
    /\ UNCHANGED <<args, pc, time_points, time_windows, buff_windows, add_sorted,
                   sub_buffs, add_index, sub_index, prev_time, i, results,
                   ret_n2, ret_nlogn, evals, added, call, total_dmg, ret_call,
                   self_buffs>>

NextCache ==
    \/ \E b \in CacheBuffs : AddBuff(b)
    \/ \E b \in CacheBuffs : RemoveBuff(b)

SpecCache == InitCache /\ [][NextCache]_vars

(***************************************************************************)
(* One call of accumulate_avg_dmg: compute_damage_matrix, then             *)
(* matrix_avg_dmg on its result.                                           *)
(***************************************************************************)
\* weight maps: label -> ratio, as the sequence of their items
WeightMaps ==
    { <<>>,
      <<<<"base", 1>>>>,
      <<<<"core", 3>>, <<"base", 1>>>>,
      <<<<"base", 0>>>>,
      <<<<"core_fb", 0>>, <<"elem", 0>>>>,
      <<<<"range_fb_elem", 2>>, <<"core_range_fb_elem", 2>>>>,
      <<<<"bogus", 1>>>>,
      <<<<"base", 1>>, <<"matrix", 1>>>> }

MatrixCalls ==
    [damage : {100, 250}, attack : {1000}, defense : {0, 100},
     buffs : DamageLists, cache : DamageCaches, tags : WeightMaps,
     normalize : BOOLEAN]

\* cache is the caller's ModifierCache when the call passes one
InitMatrix ==
    /\ SweepIdle
    /\ pc = "matrix"
    /\ call \in MatrixCalls
    /\ cache = IF call.cache.kind = "cache" THEN call.cache.v
               ELSE generate_cache(PyList(<<>>))
    /\ total_dmg = <<>>
    /\ ops = <<>>
    /\ ret_call = NoRet
    /\ self_buffs = <<>>

\* compute_damage_matrix, lines 506-542; line 507 changes the caller's cache
ComputeMatrix ==
    /\ pc = "matrix"
    /\ ret_call' = [kind |-> "dict",
                    val |-> compute_damage_matrix(call.damage, call.attack, call.defense,
                                                  call.buffs, call.cache),
                    matrix |-> MatrixRows(call.damage, call.attack, call.defense,
                                          call.buffs, call.cache)]
    /\ cache' = IF call.cache.kind = "cache" THEN MatrixCache(call.buffs, call.cache)
                ELSE cache
    /\ pc' = "matrix_returned"
    /\ UNCHANGED <<args, time_points, time_windows, buff_windows, add_sorted,
                   sub_buffs, add_index, sub_index, prev_time, i, results,
                   ret_n2, ret_nlogn, evals, added, call, total_dmg, ops,
                   self_buffs>>

\* matrix_avg_dmg on the returned matrix, lines 547-554
MatrixAvg ==
    /\ pc = "matrix_returned"
    /\ total_dmg' = matrix_avg_dmg(ret_call.val, call.tags, call.normalize)
    /\ pc' = "avg_returned"
    /\ UNCHANGED <<args, locals, ret_n2, ret_nlogn, evals, added, call, ops, ret_call,
                   self_buffs>>

\* compute_damage_matrix called a second time with the same arguments; the
\* cache passed is the caller's object as the first call left it
ComputeMatrixAgain ==
    /\ pc = "matrix_returned"
    /\ \E c \in {IF call.cache.kind = "cache" THEN [kind |-> "cache", v |-> cache]
                  ELSE PyNone} :
          /\ ret_call' = [kind |-> "again", first |-> ret_call.val,
                          val |-> compute_damage_matrix(call.damage, call.attack,
                                                        call.defense, call.buffs, c)]
          /\ cache' = IF c.kind = "cache" THEN MatrixCache(call.buffs, c) ELSE cache
    /\ pc' = "matrix_again"
    /\ UNCHANGED <<args, time_points, time_windows, buff_windows, add_sorted,
                   sub_buffs, add_index, sub_index, prev_time, i, results,
                   ret_n2, ret_nlogn, evals, added, call, total_dmg, ops,
                   self_buffs>>

NextMatrix ==
    \/ ComputeMatrix
    \/ MatrixAvg
    \/ ComputeMatrixAgain

SpecMatrix == InitMatrix /\ [][NextMatrix]_vars

(***************************************************************************)
(* The two sweeps on input that is not well formed (a damage tag with an   *)
(* unknown label, a buff or a damage tag whose end lies before its start)  *)
(* and on damage tags given by 'end' in place of 'duration'.               *)
(***************************************************************************)
\* a damage tag whose weight map names a label the matrix does not have
UnknownLabelTag(s) == [damage |-> 100, start |-> s, duration |-> 0,
                       tags |-> <<<<"bogus", 1>>>>]

\* a damage tag given by start and 'end', without 'duration'
EndTag(s, e) == [damage |-> 100, start |-> s, end |-> e, tags |-> <<<<"base", 1>>>>]

UnknownLabelLists == {<<InstantTag(1), UnknownLabelTag(0)>>,
                      <<UnknownLabelTag(2), SustainedTag(0, 1)>>}

\* end < start by 'end', end < start by a negative duration, end = start, and
\* end > start next to the same tag given by its duration
EndTagLists == {<<EndTag(1, 0), InstantTag(1)>>,
                <<SustainedTag(1, -1)>>,
                <<EndTag(1, 1), SustainedTag(0, 1)>>,
                <<EndTag(0, 2), [damage |-> 100, start |-> 0, duration |-> 2,
                                 tags |-> <<<<"base", 1>>>>]>>}

\* lists of at most one well-formed buff
ShortBuffLists == {<<>>} \cup {<<At(SweepEffects(1), iv)>> : iv \in Intervals}

\* lists with a buff whose end lies before its start
ReversedBuffLists ==
    {<<At(SweepEffects(1), iv)>> : iv \in {r \in Times \X Times : r[2] < r[1]}}
    \cup {<<At(SweepEffects(1), <<2, PosInf>>), At(SweepEffects(2), <<1, 0>>)>>}

InvalidInputs ==
    [tags : UnknownLabelLists \cup EndTagLists, buffs : ShortBuffLists]
    \cup [tags : TagLists, buffs : ReversedBuffLists]

InitInvalid ==
    /\ \E inp \in InvalidInputs : damage_tags = inp.tags /\ buffs = inp.buffs
    /\ attack = 1000
    /\ defense = 100
    /\ \E w \in Windows : window_start = w[1] /\ window_end = w[2]
    /\ accumulate \in BOOLEAN
    /\ normalize = TRUE
    /\ pc = "n2"
    /\ LocalsInit
    /\ cache = generate_cache(PyList(<<>>))
    /\ ret_n2 = NoRet
    /\ ret_nlogn = NoRet
    /\ evals = <<>>
    /\ added = <<>>
    /\ call = NoCall
    /\ total_dmg = <<>>
    /\ ops = <<>>
    /\ ret_call = NoRet
    /\ self_buffs = <<>>

SpecInvalid == InitInvalid /\ [][Next]_vars

(***************************************************************************)
(* compute_dps_window and compare_dps_window_alg.  Both sweeps are pure    *)
(* functions of their arguments, so the sweep a caller selects returns     *)
(* what it returned when the two were run one after the other.             *)
(***************************************************************************)
\* line 788: if len(buffs) >= 800
Threshold == 800

QAbs(x) == <<Abs(x[1]), x[2]>>

\* math.isclose(a, b): abs(a - b) <= 1e-09 * max(abs(a), abs(b))
isclose(a, b) ==
    \/ a = b
    \/ /\ a # b
       /\ \E r \in {QDiv(QMax(QAbs(a), QAbs(b)), QAbs(QSub(a, b)))} :
              r[1] \div r[2] >= 1000000000

TopTagLists == TagLists \cup {<<SustainedTag(0, 1)>>}

InitTop ==
    /\ damage_tags \in TopTagLists
    /\ attack = 1000
    /\ defense = 100
    /\ buffs \in BuffLists
    /\ \E w \in Windows : window_start = w[1] /\ window_end = w[2]
    /\ accumulate \in BOOLEAN
    /\ normalize = TRUE
    /\ pc = "n2"
    /\ LocalsInit
    /\ cache = generate_cache(PyList(<<>>))
    /\ ret_n2 = NoRet
    /\ ret_nlogn = NoRet
    /\ evals = <<>>
    /\ added = <<>>
    /\ call = NoCall
    /\ total_dmg = <<>>
    /\ ops = <<>>
    /\ ret_call = NoRet
    /\ self_buffs = <<>>

\* compute_dps_window, lines 788-792
ComputeDpsWindow ==
    /\ pc = "done"
    /\ ret_call' = IF Len(buffs) >= Threshold THEN ret_nlogn ELSE ret_n2
    /\ pc' = "window_returned"
    /\ UNCHANGED <<args, locals, ret_n2, ret_nlogn, evals, added, call, total_dmg, ops,
                   self_buffs>>

\* what compare_dps_window_alg ends with
Outcome(kind, val, logged) == [kind |-> kind, val |-> val, logged |-> logged]

\* lines 810-825.  The linearithmic sweep is called first, then the quadratic
\* one; an exception of either leaves the function.  math.isclose converts
\* its arguments with float(): an array that has not exactly one element
\* raises TypeError, and the conversion of a one-element array is deprecated
\* by numpy (it returns the element or raises, depending on the release).
CompareOutcomes ==
    IF ~IsValue(ret_nlogn) THEN {Outcome(ret_nlogn.kind, <<>>, FALSE)}
    ELSE IF ~IsValue(ret_n2) THEN {Outcome(ret_n2.kind, <<>>, FALSE)}
    ELSE IF ret_n2.kind = "array" /\ Len(ret_n2.val) # 1
         THEN {Outcome("TypeError", <<>>, FALSE)}
    ELSE IF ret_n2.kind = "array"
         THEN {Outcome("TypeError", <<>>, FALSE),
               Outcome("array", ret_n2.val, ~isclose(ret_nlogn.val[1], ret_n2.val[1]))}
    ELSE {Outcome("float", ret_n2.val, ~isclose(ret_nlogn.val, ret_n2.val))}

CompareDpsWindowAlg ==
    /\ pc = "done"
    /\ \E out \in CompareOutcomes : ret_call' = out
    /\ pc' = "compared"
    /\ UNCHANGED <<args, locals, ret_n2, ret_nlogn, evals, added, call, total_dmg, ops,
                   self_buffs>>

NextTop ==
    \/ Next
    \/ ComputeDpsWindow
    \/ CompareDpsWindowAlg

SpecTop == InitTop /\ [][NextTop]_vars

(***************************************************************************)
(* The two sweeps run on a buff list, then run again on the same list with *)
(* one buff of start = end inserted.                                       *)
(***************************************************************************)
InitNoop ==
    /\ damage_tags \in TagLists
    /\ attack = 1000
    /\ defense = 100
    /\ buffs \in ShortBuffLists
    /\ \E w \in Windows : window_start = w[1] /\ window_end = w[2]
    /\ accumulate \in BOOLEAN
    /\ normalize = TRUE
    /\ pc = "n2"
    /\ LocalsInit
    /\ cache = generate_cache(PyList(<<>>))
    /\ ret_n2 = NoRet
    /\ ret_nlogn = NoRet
    /\ evals = <<>>
    /\ added = <<>>
    /\ call = NoCall
    /\ total_dmg = <<>>
    /\ ops = <<>>
    /\ ret_call = NoRet
    /\ self_buffs = <<>>

\* the caller keeps what both sweeps returned, inserts a buff with
\* start = end = t at position pos of the list and calls both sweeps again
SweepAgain ==
    /\ pc = "done"
    /\ ret_call = NoRet
    /\ \E pos \in 0..Len(buffs) : \E t \in Times :
          buffs' = SubSeq(buffs, 1, pos) \o <<[start |-> t, end |-> t, attack |-> 30]>>
                   \o SubSeq(buffs, pos + 1, Len(buffs))
    /\ ret_call' = [kind |-> "first", n2 |-> ret_n2, nlogn |-> ret_nlogn]
    /\ pc' = "n2"
    /\ time_points' = <<>>
    /\ time_windows' = <<>>
    /\ buff_windows' = <<>>
    /\ add_sorted' = <<>>
    /\ sub_buffs' = <<>>
    /\ add_index' = 0
    /\ sub_index' = 0
    /\ prev_time' = 0
    /\ i' = 0
    /\ results' = <<>>
    /\ cache' = generate_cache(PyList(<<>>))
    /\ ret_n2' = NoRet
    /\ ret_nlogn' = NoRet
    /\ evals' = <<>>
    /\ added' = <<>>
    /\ ops' = <<>>
    /\ UNCHANGED <<damage_tags, attack, defense, window_start, window_end,
                   accumulate, normalize, call, total_dmg, self_buffs>>

NextNoop == Next \/ SweepAgain

SpecNoop == InitNoop /\ [][NextNoop]_vars

(***************************************************************************)
(* NIKKEConfig (nikke_config.py): the pending buff table filled by         *)
(* add_skill_1 / add_skill_2 / add_burst and convert_to_buffs.             *)
(***************************************************************************)
\* self.config['nikkes']: one NIKKE with a list effect, a stackable
\* single effect and a plain single effect
Config ==
    [Liter |->
        [skill_1 |-> [type |-> "buff",
                      effect |-> PyList(<<[type |-> "buff", attack |-> 20, duration |-> 5],
                                         [type |-> "heal", amount |-> 4],
                                         [type |-> "buff", crit_rate |-> 3]>>)],
         skill_2 |-> [type |-> "stack_buff",
                      effect |-> PyDict([type |-> "stack_buff", attack |-> 10])],
         burst |-> [type |-> "buff",
                    effect |-> PyDict([type |-> "buff", damage_up |-> 7])]]]

\* duration is PyNone or PyInt(n)
update_effect_duration(effect, start, duration) ==
    LET e1 == IF duration # PyNone THEN ("duration" :> duration.val) @@ effect ELSE effect
        e2 == ("start" :> start) @@ e1
    IN  IF ~Has(e2, "duration") \/ e2.duration = PosInf
        THEN ("end" :> PosInf) @@ e2
        ELSE ("end" :> start + e2.duration) @@ e2

\* NIKKEConfig.__add_buff: called only when key is not in the table; of the
\* effect types of Config, "buff" and "stack_buff" end with 'buff'
add_buff_entry(table, effect, key, depth, start, duration) ==
    IF effect.kind = "list"
    THEN LET length == IF depth # PyNone /\ depth.val > 0 /\ depth.val <= Len(effect.v)
                       THEN depth.val ELSE Len(effect.v)
             kept == SelectSeq(SubSeq(effect.v, 1, length),
                               LAMBDA e : e.type \in {"buff", "stack_buff"})
         IN  Append(table,
                    [key |-> key,
                     item |-> PyList([k \in 1..Len(kept) |->
                                        update_effect_duration(kept[k], start, duration)])])
    ELSE IF effect.v.type \in {"buff", "stack_buff"}
         THEN Append(table, [key |-> key,
                             item |-> PyDict(update_effect_duration(effect.v, start,
                                                                    duration))])
    ELSE table

\* NIKKEConfig.__pre_add_buff; idx is the position of key in the table, 0
\* when key is not in it
pre_add_buff(table, skill_type, key, name, depth, start, duration) ==
    LET skill == Config[name][skill_type]
        idx == IF \E k \in 1..Len(table) : table[k].key = key
               THEN CHOOSE k \in 1..Len(table) : table[k].key = key
               ELSE 0
    IN  IF idx = 0 THEN add_buff_entry(table, skill.effect, key, depth, start, duration)
        ELSE IF table[idx].item.kind = "dict"
             THEN [table EXCEPT ![idx].item.v =
                      update_effect_duration(
                          IF skill.type \in {"stack_buff"}
                          THEN ("stacks" :> (Stacks(@) + 1)) @@ @ ELSE @,
                          start, duration)]
        ELSE table

\* the list get_buff_list returns (it also empties the table)
RECURSIVE get_buff_list(_)
get_buff_list(table) ==
    IF table = <<>> THEN <<>>
    ELSE (IF Head(table).item.kind = "list" THEN Head(table).item.v
          ELSE <<Head(table).item.v>>) \o get_buff_list(Tail(table))

\* the body of the loop over window.skills of convert_to_buffs for one tag;
\* it = [name, tag, start, duration, stacks], tag = the pieces of tag.split('_');
\* the table is empty when the body starts and when it ends
ConvertTag(st, it) ==
    LET depth == IF Len(it.tag) > 1 THEN PyInt(it.tag[Len(it.tag)]) ELSE PyNone
        type == IF it.tag[1] = "s1" THEN "skill_1"
                ELSE IF it.tag[1] = "s2" THEN "skill_2"
                ELSE IF it.tag[1] = "b" THEN "burst" ELSE "none"
        suffix == IF type = "skill_1" THEN "S1" ELSE IF type = "skill_2" THEN "S2" ELSE "B"
        new_buff == IF type = "none" THEN <<>>
                    ELSE get_buff_list(pre_add_buff(<<>>, type, <<it.name, suffix>>,
                                                    it.name, depth, it.start, it.duration))
    IN  IF type = "none" THEN [st EXCEPT !.err = "ValueError"]
        ELSE IF it.stacks = PyNone THEN [st EXCEPT !.out = @ \o new_buff]
        ELSE IF new_buff = <<>> THEN [st EXCEPT !.err = "IndexError"]
        ELSE [st EXCEPT !.out = @ \o <<("stacks" :> it.stacks.val) @@ new_buff[1]>>
                                  \o Tail(new_buff)]

RECURSIVE ConvertLoop(_, _)
ConvertLoop(st, items) ==
    IF items = <<>> \/ st.err # "none" THEN st
    ELSE ConvertLoop(ConvertTag(st, Head(items)), Tail(items))

\* NIKKEConfig.convert_to_buffs: what it returns or raises; every window of
\* params['Modifiers'] (one skill each) gives one entry of custom_buffs
convert_to_buffs(table, params) ==
    LET st == ConvertLoop([out |-> get_buff_list(table), err |-> "none"], params.Nikkes)
    IN  IF st.err # "none" THEN Raised(st.err)
        ELSE [kind |-> "list",
              val |-> st.out \o params.Custom
                      \o [k \in 1..Len(params.Modifiers) |->
                            (params.Modifiers[k].skill :> PyBool(TRUE))
                            @@ [start |-> params.Modifiers[k].start,
                                end |-> params.Modifiers[k].start
                                        + params.Modifiers[k].duration,
                                duration |-> params.Modifiers[k].duration]]]

\* the params drawn for convert_to_buffs, 'Nikkes' flattened to one entry per
\* (name, window, tag)
ParamSets ==
    { [Nikkes |-> <<[name |-> "Liter", tag |-> <<"s1", 1>>, start |-> 0,
                     duration |-> PyInt(5), stacks |-> PyNone],
                    [name |-> "Liter", tag |-> <<"b">>, start |-> 0,
                     duration |-> PyInt(5), stacks |-> PyNone]>>,
       Custom |-> <<>>, Modifiers |-> <<>>],
      [Nikkes |-> <<[name |-> "Liter", tag |-> <<"s2">>, start |-> 1,
                     duration |-> PyNone, stacks |-> PyInt(3)]>>,
       Custom |-> <<>>, Modifiers |-> <<>>],
      [Nikkes |-> <<>>,
       Custom |-> <<[attack |-> 11, start |-> 5, end |-> 10, duration |-> 5]>>,
       Modifiers |-> <<[skill |-> "full_burst", start |-> 0, duration |-> 10]>>],
      [Nikkes |-> <<[name |-> "Liter", tag |-> <<"x">>, start |-> 0,
                     duration |-> PyNone, stacks |-> PyNone]>>,
       Custom |-> <<>>, Modifiers |-> <<>>] }

InitConfig ==
    /\ SweepIdle
    /\ pc = "config"
    /\ cache = generate_cache(PyList(<<>>))
    /\ call = NoCall
    /\ total_dmg = <<>>
    /\ ops = <<>>
    /\ ret_call = NoRet
    /\ self_buffs = <<>>

\* add_skill_1 / add_skill_2 / add_burst: each forwards to __pre_add_buff
AddSkill(op, skill_type, suffix) ==
    /\ pc = "config"
    /\ Len(ops) < MaxOps
    /\ \E name \in DOMAIN Config : \E depth \in {PyNone, PyInt(1)} :
       \E start \in {0, 1} : \E duration \in {PyNone, PyInt(5)} :
          /\ self_buffs' = pre_add_buff(self_buffs, skill_type, <<name, suffix>>,
                                        name, depth, start, duration)
          /\ ops' = Append(ops, [op |-> op, name |-> name, depth |-> depth,
                                 start |-> start, duration |-> duration])
    /\ UNCHANGED <<args, sweepvars, call, total_dmg, ret_call>>

add_skill_1 == AddSkill("add_skill_1", "skill_1", "S1")

add_skill_2 == AddSkill("add_skill_2", "skill_2", "S2")

add_burst == AddSkill("add_burst", "burst", "B")

\* one call of convert_to_buffs; the table is emptied by its first statement
\* and by every later get_buff_list
ConvertToBuffs ==
    /\ pc = "config"
    /\ \E params \in ParamSets :
          /\ call' = [params |-> params, before |-> self_buffs]
          /\ ret_call' = convert_to_buffs(self_buffs, params)
    /\ self_buffs' = <<>>
    /\ pc' = "converted"
    /\ UNCHANGED <<args, locals, ret_n2, ret_nlogn, evals, added, total_dmg, ops>>

NextConfig ==
    \/ add_skill_1
    \/ add_skill_2
    \/ add_burst
    \/ ConvertToBuffs

SpecConfig == InitConfig /\ [][NextConfig]_vars

(***************************************************************************)
(* Properties                                                              *)
(***************************************************************************)
\* compute_dps_window_n2 has just ended: results and evals are still its own
N2Finished == pc = "nlogn"

\* compute_dps_window_nlogn has ended
NlognFinished == pc = "done"

\* a sub-interval has just been evaluated; cache is the aggregate it used
AfterWindow == pc \in {"n2_loop", "nlogn_loop"} /\ i >= 1

\* the buffs whose [start, end) contains t
ActiveIdx(t) == {k \in 1..Len(buffs) : buffs[k].start <= t /\ t < buffs[k].end}

RECURSIVE SumSet(_, _)
SumSet(f, S) ==
    IF S = {} THEN 0
    ELSE SumSet(f, S \ {CHOOSE x \in S : TRUE}) + f[CHOOSE x \in S : TRUE]

\* the sum, over the buffs active at t, of effect key scaled by stacks
Total(key, t) == SumSet([k \in 1..Len(buffs) |-> Eff(buffs[k], key)], ActiveIdx(t))

TotalFullCharge(t) ==
    SumSet([k \in 1..Len(buffs) |->
               IF Has(buffs[k], "full_charge_dmg")
               THEN (buffs[k].full_charge_dmg - 100) * Stacks(buffs[k]) ELSE 0],
           ActiveIdx(t))

TotalCount(key, t) ==
    SumSet([k \in 1..Len(buffs) |-> OverrideVal(buffs[k], key)], ActiveIdx(t))

\* baseline plus the effects of exactly the buffs active at t
AggregateAt(t) ==
    [attack |-> 100 + Total("attack", t),
     charge_dmg |-> 100 + Total("charge_dmg", t) + TotalFullCharge(t),
     damage_taken |-> 100 + Total("damage_taken", t),
     element_dmg |-> 110 + Total("element_dmg", t),
     damage_up |-> 100 + Total("damage_up", t),
     defense |-> 100 + Total("defense", t),
     flat_atk |-> 0 + Total("flat_atk", t),
     crit_rate |-> 15 + Total("crit_rate", t),
     crit_dmg |-> 50 + Total("crit_dmg", t) + Total("core_dmg", t)
                     + Total("range_dmg", t) + Total("full_burst_dmg", t),
     core_dmg |-> 100,
     range_dmg |-> 30,
     full_burst_dmg |-> 50,
     core_hit |-> TotalCount("core_hit", t),
     range_bonus |-> TotalCount("range_bonus", t),
     full_burst |-> TotalCount("full_burst", t),
     element_bonus |-> TotalCount("element_bonus", t)]

\* the average damage of a tag under aggregate c, blended by its weights
TagAvg(dmg_tag, c) ==
    accumulate_avg_dmg(dmg_tag.damage, attack, defense, PyNone, dmg_tag.tags,
                       normalize, [kind |-> "cache", v |-> c]).val

IsInstant(dmg_tag) == TagDuration(dmg_tag) = 0 /\ TagEnd(dmg_tag) = dmg_tag.start

IsSustained(dmg_tag) == TagDuration(dmg_tag) # 0

FiniteWindow == ~isinf(window_start) /\ ~isinf(window_end)

\* C1: compute_dps_window_nlogn returns the same result as
\* compute_dps_window_n2 on the same arguments, as the accumulated total and
\* as the per-tag vector.
C1_SweepsAgree ==
    (NlognFinished /\ (IsValue(ret_n2) \/ IsValue(ret_nlogn))) =>
        /\ ret_nlogn.kind = ret_n2.kind
        /\ ret_nlogn.val = ret_n2.val

\* C2: compute_dps_window_n2 returns a value for every well-formed input
\* (buffs with start < end, also none; canonical labels; finite or infinite
\* window bounds); it never raises.
C2_N2Total == (N2Finished \/ NlognFinished) => IsValue(ret_n2)

\* C6: at every sub-interval [t_i, t_{i+1}) of either sweep the aggregate used
\* to evaluate the damage tags is the baseline plus the effects, scaled by
\* stacks, of exactly the buffs with start <= t_i < end; two fully overlapping
\* attack +20 buffs give attack 140 inside their window.
C6_AggregateIsActiveBuffs ==
    AfterWindow =>
        /\ cache = AggregateAt(time_windows[i][1])
        /\ (/\ Len(buffs) = 2
            /\ ActiveIdx(time_windows[i][1]) = {1, 2}
            /\ Eff(buffs[1], "attack") = 20
            /\ Eff(buffs[2], "attack") = 20) => cache.attack = 140

\* the linearithmic sweep evaluates a sub-interval in which a buff with
\* stacks 2 is active and another buff has not started yet
C6_Witness ==
    /\ pc = "nlogn_loop"
    /\ i >= 1
    /\ Len(buffs) = 2
    /\ ActiveIdx(time_windows[i][1]) = {2}
    /\ cache.attack = 120
    /\ cache.core_hit = 1

\* C8: for a sustained tag (duration != 0) a sub-interval [t_i, t_{i+1}) adds
\* average_damage * (min(tag_end, t_{i+1}) - max(tag_start, t_i)) when that
\* overlap is positive and nothing otherwise, also when the tag's end is
\* exactly a sub-interval boundary.
C8_SustainedOverlap ==
    AfterWindow =>
        \A k \in 1..Len(damage_tags) :
            IsSustained(damage_tags[k]) =>
                \E ov \in {Min(TagEnd(damage_tags[k]), time_windows[i][2])
                           - Max(damage_tags[k].start, time_windows[i][1])} :
                    added[k] = IF ov > 0
                               THEN QMul(TagAvg(damage_tags[k], cache), Q(ov))
                               ELSE Q(0)

\* what the finished sweep holds for the instantaneous tag k at time s
InstantOnce(k, ret) ==
    IF window_start <= damage_tags[k].start /\ damage_tags[k].start < window_end
    THEN /\ IsValue(ret)
         /\ evals[k] = 1
         /\ results[k] = TagAvg(damage_tags[k], AggregateAt(damage_tags[k].start))
    ELSE IsValue(ret) => evals[k] = 0 /\ results[k] = Q(0)

\* C9: over a finite window with window_start < window_end an instantaneous
\* tag at s is evaluated exactly once by each sweep when
\* window_start <= s < window_end, with the aggregate of the buffs active at
\* s, and adds its raw average damage; outside that range it adds nothing.
C9_InstantOnce ==
    (FiniteWindow /\ window_start < window_end) =>
        \A k \in 1..Len(damage_tags) :
            IsInstant(damage_tags[k]) =>
                /\ N2Finished => InstantOnce(k, ret_n2)
                /\ NlognFinished => InstantOnce(k, ret_nlogn)

\* what the finished sweep holds for tag k over the zero-width window
ZeroWidth(k) ==
    /\ IsSustained(damage_tags[k]) => results[k] = Q(0)
    /\ (IsInstant(damage_tags[k]) /\ damage_tags[k].start = window_start) =>
           results[k] = TagAvg(damage_tags[k], AggregateAt(window_start))

\* C10: when window_start = window_end each sweep returns 0 for every
\* sustained tag, and an instantaneous tag exactly at that point contributes
\* its raw average damage.
C10_ZeroWidthWindow ==
    (FiniteWindow /\ window_start = window_end) =>
        \A k \in 1..Len(damage_tags) :
            /\ (N2Finished /\ IsValue(ret_n2)) => ZeroWidth(k)
            /\ (NlognFinished /\ IsValue(ret_nlogn)) => ZeroWidth(k)

\* the aggregate the recorded call of compute_damage works on
CallCalc == CalcOf(call.buffs, call.cache)

CallBaseMod == BaseMod(CallCalc, call.core_hit, call.range_bonus, call.full_burst)

CallBaseDmg ==
    BaseDmg(CallCalc, call.damage, call.attack, call.defense, call.element_bonus)

\* (attack*A.attack/100 - defense*A.defense/100 + A.flat_atk) * A.charge_dmg/100
\*   * A.damage_taken/100 * element * A.damage_up/100 * damage/100
SubtractedBase(A, damage, atk, def, element_bonus) ==
    QMul(QMul(QMul(QMul(QMul(
        QAdd(QSub(QNorm(atk * A.attack, 100), QNorm(def * A.defense, 100)),
             Q(A.flat_atk)),
        QNorm(A.charge_dmg, 100)),
        QNorm(A.damage_taken, 100)),
        IF element_bonus \/ A.element_bonus > 0 THEN QNorm(A.element_dmg, 100) ELSE Q(1)),
        QNorm(A.damage_up, 100)),
        QNorm(damage, 100))

NoBuffsNoFlags ==
    /\ call.buffs \in {PyNone, PyList(<<>>)}
    /\ call.cache = PyNone
    /\ ~call.core_hit /\ ~call.range_bonus /\ ~call.full_burst /\ ~call.element_bonus

\* C3: the base damage of compute_damage subtracts the enemy defense: it is
\* (attack*A.attack/100 - defense*A.defense/100 + A.flat_atk) times the charge,
\* damage-taken, element and damage-up factors times damage/100; attack 100000,
\* defense 10000, multiplier 100, no buffs, no flags give 90000 (average
\* 96750); raising defense never raises the result.
C3_DefenseSubtracted ==
    pc = "returned" =>
        /\ total_dmg[1] = QMul(SubtractedBase(CallCalc, call.damage, call.attack,
                                              call.defense, call.element_bonus),
                               CallBaseMod)
        /\ (NoBuffsNoFlags /\ call.attack = 100000 /\ call.defense = 10000
              /\ call.damage = 100) =>
               (total_dmg[1] = Q(90000) /\ total_dmg[3] = Q(96750))
        /\ \A d \in {0, 10000} :
               d < call.defense =>
                   QLe(total_dmg[1],
                       compute_damage(call.damage, call.attack, d, call.buffs,
                                      call.core_hit, call.range_bonus, call.full_burst,
                                      call.element_bonus, call.cache)[1])

\* 1 + core_dmg/100 + range_dmg/100 + full_burst_dmg/100, each term only when
\* its argument is true or its counter is positive
GatedMod(A, core_hit, range_bonus, full_burst) ==
    <<100 + (IF core_hit \/ A.core_hit > 0 THEN A.core_dmg ELSE 0)
          + (IF range_bonus \/ A.range_bonus > 0 THEN A.range_dmg ELSE 0)
          + (IF full_burst \/ A.full_burst > 0 THEN A.full_burst_dmg ELSE 0), 100>>

\* C4: base_mod is 1 plus A.core_dmg/100, A.range_dmg/100 and
\* A.full_burst_dmg/100, each added when its argument is true or its counter is
\* positive; with the default baselines and no buffs range_bonus=True alone
\* gives base_mod 1.30.
C4_BaseModGated ==
    pc = "returned" =>
        /\ total_dmg[1] =
               QMul(CallBaseDmg,
                    QNorm(GatedMod(CallCalc, call.core_hit, call.range_bonus,
                                   call.full_burst)[1], 100))
        /\ (call.buffs \in {PyNone, PyList(<<>>)} /\ call.cache = PyNone
              /\ call.range_bonus /\ ~call.core_hit /\ ~call.full_burst) =>
               total_dmg[1] = QMul(CallBaseDmg, <<13, 10>>)

\* clamp(A.crit_rate/100, 0, 1)
ClampedRate(A) == QMax(Q(0), QMin(Q(1), QNorm(A.crit_rate, 100)))

\* C5: the crit rate used is A.crit_rate/100 clamped into [0, 1], the crit
\* damage max(0, A.crit_dmg/100), crit_mod = base_mod + crit_dmg and
\* average_mod = base_mod*(1-crit_rate) + crit_mod*crit_rate; so for
\* non-negative base damage no-crit <= average <= crit.
C5_CritClamped ==
    pc = "returned" =>
        /\ total_dmg[2] = QMul(CallBaseDmg, QAdd(CallBaseMod, CritDmgP(CallCalc)))
        /\ total_dmg[3] =
               QMul(CallBaseDmg,
                    AvgMod(CallBaseMod, QAdd(CallBaseMod, CritDmgP(CallCalc)),
                           ClampedRate(CallCalc)))
        /\ QLe(Q(0), total_dmg[1]) =>
               (QLe(total_dmg[1], total_dmg[3]) /\ QLe(total_dmg[3], total_dmg[2]))

\* C7: add_buff(b) followed by remove_buff(b), and remove_buff(b) followed by
\* add_buff(b), restore every field of the aggregate.
C7_AddRemoveInverse ==
    (/\ Len(ops) >= 2
     /\ ops[Len(ops) - 1].op # ops[Len(ops)].op
     /\ ops[Len(ops) - 1].buff = ops[Len(ops)].buff)
        => cache = ops[Len(ops) - 1].before

\* a buff with stacks 2 and all four override fields was added, then removed
C7_Witness ==
    /\ Len(ops) = 2
    /\ ops[1].op = "add"
    /\ ops[2].op = "remove"
    /\ ops[1].buff = ops[2].buff
    /\ Has(ops[1].buff, "core_hit")
    /\ Stacks(ops[1].buff) = 2
    /\ ops[2].before # ops[1].before
    /\ cache = ops[1].before

\* a buff that never starts and never ends
IsInfiniteBuff(buff) == buff.start = NegInf /\ buff.end = PosInf

\* list without its k-th element
Without(list, k) == SubSeq(list, 1, k - 1) \o SubSeq(list, k + 1, Len(list))

\* the baseline plus the effects of the buffs whose positions are in S
RECURSIVE AggregateOver(_)
AggregateOver(S) ==
    IF S = {} THEN generate_cache(PyList(<<>>))
    ELSE add_buff(AggregateOver(S \ {CHOOSE k \in S : TRUE}),
                  buffs[CHOOSE k \in S : TRUE])

\* a sweep has built its timeline
HasTimeline == pc \in {"n2_loop", "nlogn_cursor", "nlogn_loop"}

\* C11: over a finite window a buff with start = -inf and end = +inf is part of
\* the aggregate of every sub-interval, in the quadratic and in the
\* linearithmic sweep, and its infinite bounds add no time point.
C11_InfiniteBuffActive ==
    FiniteWindow =>
        \A k \in 1..Len(buffs) :
            IsInfiniteBuff(buffs[k]) =>
                /\ HasTimeline =>
                       /\ \A j \in 1..Len(time_points) : ~isinf(time_points[j])
                       /\ time_points = np_sort(get_unique_times(Without(buffs, k),
                                                                 window_start, window_end))
                /\ AfterWindow =>
                       cache = add_buff(AggregateOver(ActiveIdx(time_windows[i][1]) \ {k}),
                                        buffs[k])

\* the linearithmic sweep evaluates a sub-interval of a finite window while one
\* of two buffs is infinite and carries attack 20
C11_Witness ==
    /\ pc = "nlogn_loop"
    /\ i >= 1
    /\ FiniteWindow
    /\ Len(buffs) = 2
    /\ IsInfiniteBuff(buffs[1])
    /\ cache.attack >= 120

\* 0 for False, 1 for True
Bit(b) == IF b THEN 1 ELSE 0

\* the aggregate every combination of the recorded call is evaluated against
CallMatrixCache == [kind |-> "cache", v |-> MatrixCache(call.buffs, call.cache)]

\* what the returned matrix holds for one combination of the four flags
ComboStored(core_hit, range_bonus, full_burst, element_bonus, tag, index) ==
    /\ tag \in DOMAIN ret_call.val
    /\ ret_call.val[tag].index = index
    /\ index = 8 * Bit(core_hit) + 4 * Bit(range_bonus) + 2 * Bit(full_burst)
                 + Bit(element_bonus)
    /\ ret_call.matrix[index] =
           <<ret_call.val[tag].base, ret_call.val[tag].crit, ret_call.val[tag].avg>>
    /\ ret_call.matrix[index] =
           compute_damage(call.damage, call.attack, call.defense, PyNone,
                          core_hit, range_bonus, full_burst, element_bonus,
                          CallMatrixCache)
    /\ (tag = "base") <=>
           (~core_hit /\ ~range_bonus /\ ~full_burst /\ ~element_bonus)

\* C12: compute_damage_matrix evaluates the 16 flag combinations against the
\* same aggregate and stores them under 16 pairwise distinct labels; 'base' is
\* the combination with all flags false, the stored index of a label is
\* 8*core + 4*range + 2*full_burst + element, and row index of the matrix holds
\* the (base, crit, avg) triple stored under the label.
C12_MatrixComplete ==
    pc = "matrix_returned" =>
        /\ Cardinality(DOMAIN ret_call.val) = 16
        /\ \A core_hit \in BOOLEAN, range_bonus \in BOOLEAN,
              full_burst \in BOOLEAN, element_bonus \in BOOLEAN :
               ComboStored(core_hit, range_bonus, full_burst, element_bonus,
                           get_bonus_tag(core_hit, range_bonus, full_burst, element_bonus),
                           ret_call.val[get_bonus_tag(core_hit, range_bonus, full_burst,
                                                      element_bonus)].index)

\* the matrix was computed on a caller's cache with a buff that sets the
\* range counter, and the core + full-burst row differs from the base row
C12_Witness ==
    /\ pc = "matrix_returned"
    /\ call.cache.kind = "cache"
    /\ call.buffs.kind = "list"
    /\ cache.range_bonus = 1
    /\ ret_call.val["core_fb"].index = 10
    /\ ret_call.matrix[10] # ret_call.matrix[0]

\* every label of the weight map is one of the labels of the matrix, and no
\* ratio is negative
WellFormedWeights(tags) ==
    \A k \in 1..Len(tags) : tags[k][1] \in DOMAIN ret_call.val /\ tags[k][2] >= 0

\* the sum of the ratios of the first n items
RECURSIVE RatioSum(_, _)
RatioSum(tags, n) == IF n = 0 THEN 0 ELSE RatioSum(tags, n - 1) + tags[n][2]

\* the sum of avg * ratio over the first n items
RECURSIVE WeightedAvg(_, _)
WeightedAvg(tags, n) ==
    IF n = 0 THEN Q(0)
    ELSE QAdd(WeightedAvg(tags, n - 1),
              QMul(ret_call.val[tags[n][1]].avg, Q(tags[n][2])))

HasUnknownLabel(dmg_tag) ==
    \E k \in 1..Len(dmg_tag.tags) : dmg_tag.tags[k][1] \notin Labels

\* C14: a damage tag whose weight map names a label that is not one of the 16
\* canonical labels makes the computation fail: matrix_avg_dmg raises, and
\* neither sweep given such a tag returns a result (in which the tag would
\* silently contribute 0).
C14_UnknownLabelFails ==
    (\E k \in 1..Len(damage_tags) : HasUnknownLabel(damage_tags[k])) =>
        /\ ~IsValue(ret_n2)
        /\ ~IsValue(ret_nlogn)
        /\ \A k \in 1..Len(damage_tags) :
               HasUnknownLabel(damage_tags[k]) =>
                   matrix_avg_dmg(compute_damage_matrix(damage_tags[k].damage, attack,
                                                        defense, PyNone, PyNone),
                                  damage_tags[k].tags, normalize).kind # "float"

\* the input holds a buff or a damage tag whose end is smaller than its start
HasReversedInterval ==
    \/ \E k \in 1..Len(buffs) : buffs[k].end < buffs[k].start
    \/ \E k \in 1..Len(damage_tags) : TagEnd(damage_tags[k]) < damage_tags[k].start

\* every tag is well formed and one is given with 'end' equal to its start
HasEndEqualStart ==
    /\ ~HasReversedInterval
    /\ \A k \in 1..Len(damage_tags) : ~HasUnknownLabel(damage_tags[k])
    /\ \E k \in 1..Len(damage_tags) :
           Has(damage_tags[k], "end") /\ damage_tags[k].end = damage_tags[k].start

\* C15: a buff or a damage tag whose end is smaller than its start is an
\* error, so neither sweep returns a numeric result for input that holds one;
\* a tag with end == start is accepted as an instantaneous tag.
C15_ReversedIntervalFails ==
    /\ HasReversedInterval => (~IsValue(ret_n2) /\ ~IsValue(ret_nlogn))
    /\ (HasEndEqualStart /\ FiniteWindow /\ pc \in {"nlogn", "nlogn_cursor", "nlogn_loop", "done"})
           => IsValue(ret_n2)

\* C16: compute_dps_window returns what compute_dps_window_nlogn returns when
\* len(buffs) >= 800 and what compute_dps_window_n2 returns when
\* len(buffs) < 800, on the same arguments; the two sweeps being identical, its
\* result is the result of either sweep, whatever the number of buffs.
C16_DispatchByLength ==
    pc = "window_returned" =>
        /\ Len(buffs) >= Threshold => ret_call = ret_nlogn
        /\ Len(buffs) < Threshold => ret_call = ret_n2
        /\ (IsValue(ret_n2) \/ IsValue(ret_nlogn)) =>
               (ret_call = ret_n2 /\ ret_call = ret_nlogn)

\* C18: compare_dps_window_alg runs both sweeps on the same arguments and never
\* fails because the two disagree: on a mismatch it only logs, and whenever the
\* quadratic sweep returns a result it returns that result.
C18_CompareReturnsN2 ==
    (pc = "compared" /\ IsValue(ret_n2)) =>
        /\ ret_call.kind = ret_n2.kind
        /\ ret_call.val = ret_n2.val
        /\ ret_call.logged <=> (ret_nlogn # ret_n2)

\* what one damage tag collects over the first n sub-intervals of the finished
\* sweep, computed from that tag, the buffs and the sub-intervals alone
RECURSIVE TagTotal(_, _)
TagTotal(dmg_tag, n) ==
    IF n = 0 THEN Q(0)
    ELSE IF TagSkipped(dmg_tag, time_windows[n][1], time_windows[n][2])
         THEN TagTotal(dmg_tag, n - 1)
    ELSE QAdd(TagTotal(dmg_tag, n - 1),
              TagAmount(dmg_tag, TagAvg(dmg_tag, AggregateAt(time_windows[n][1])),
                        time_windows[n][1], time_windows[n][2]))

\* the sum of the totals of the first n damage tags
RECURSIVE SumTotals(_)
SumTotals(n) ==
    IF n = 0 THEN Q(0)
    ELSE QAdd(SumTotals(n - 1), TagTotal(damage_tags[n], Len(time_windows)))

\* the value a sweep returned is aligned with damage_tags
Aligned(ret) ==
    IF accumulate
    THEN ret.kind = "float" /\ ret.val = SumTotals(Len(damage_tags))
    ELSE /\ ret.kind = "array"
         /\ Len(ret.val) = Len(damage_tags)
         /\ \A k \in 1..Len(damage_tags) :
                ret.val[k] = TagTotal(damage_tags[k], Len(time_windows))

\* C17: with accumulate=False each sweep returns one value per damage tag, in
\* the order of damage_tags, and entry i is determined by tag i alone; with
\* accumulate=True it returns the sum of exactly those per-tag values.
C17_PerTagResults ==
    /\ (N2Finished /\ IsValue(ret_n2)) => Aligned(ret_n2)
    /\ (NlognFinished /\ IsValue(ret_nlogn)) => Aligned(ret_nlogn)

\* the linearithmic sweep returned two different non-zero per-tag values for
\* a list with a buff
C17_Witness ==
    /\ pc = "done"
    /\ ~accumulate
    /\ ret_nlogn.kind = "array"
    /\ Len(buffs) >= 1
    /\ ret_nlogn.val[1] # Q(0)
    /\ ret_nlogn.val[2] # Q(0)
    /\ ret_nlogn.val[1] # ret_nlogn.val[2]

\* the finite window boundaries and the finite buff starts and ends lying
\* strictly between window_start and window_end
ExpectedPoints ==
    {t \in {window_start, window_end} : ~isinf(t)}
    \cup {t \in {buffs[k].start : k \in 1..Len(buffs)} \cup {buffs[k].end : k \in 1..Len(buffs)} :
              ~isinf(t) /\ window_start < t /\ t < window_end}

\* C19: the sorted time points of both sweeps are the finite window boundaries
\* plus every finite buff start or end strictly inside the window, and nothing
\* else; consecutive points are strictly increasing for every window with
\* window_start <= window_end, and no time point is infinite.
C19_TimePointsStrict ==
    HasTimeline =>
        /\ {time_points[j] : j \in 1..Len(time_points)} = ExpectedPoints
        /\ \A j \in 1..Len(time_points) : ~isinf(time_points[j])
        /\ \A j \in 1..(Len(time_points) - 1) : time_points[j] < time_points[j + 1]

\* the buff is active at time t
ActiveAt(buff, t) == buff.start <= t /\ t < buff.end

\* the numbers of the sub-intervals [time_points[j], time_points[j + 1]) at
\* which the buff becomes active / becomes inactive
BecomesActive(buff) ==
    {j \in 1..(Len(time_points) - 1) :
        ActiveAt(buff, time_points[j]) /\ (j > 1 => ~ActiveAt(buff, time_points[j - 1]))}

BecomesInactive(buff) ==
    {j \in 2..(Len(time_points) - 1) :
        ~ActiveAt(buff, time_points[j]) /\ ActiveAt(buff, time_points[j - 1])}

\* the sub-intervals at which op was called with the buff
CalledAt(op, buff) == {k \in 1..Len(ops) : ops[k].op = op /\ ops[k].buff = buff}

\* op was called with the buff exactly once, in a sub-interval of S
OnceIn(op, buff, S) ==
    /\ Cardinality(CalledAt(op, buff)) = 1
    /\ \A k \in CalledAt(op, buff) : ops[k].at \in S

\* C20: in compute_dps_window_nlogn every buff is passed to add exactly once,
\* at the sub-interval where it becomes active, and to remove exactly once, at
\* the sub-interval where it becomes inactive, over the whole sweep.
C20_AddedOnceRemovedOnce ==
    (NlognFinished /\ window_start < window_end) =>
        \A k \in 1..Len(buffs) :
            /\ BecomesActive(buffs[k]) # {} =>
                   OnceIn("add", buffs[k], BecomesActive(buffs[k]))
            /\ BecomesInactive(buffs[k]) # {} =>
                   OnceIn("remove", buffs[k], BecomesInactive(buffs[k]))

\* the index ranges recorded so far are well-ordered, start at 0, follow one
\* another without gap or overlap, and end at or before the cursors
RangesContiguous ==
    /\ \A j \in 1..Len(buff_windows) :
          /\ 0 <= buff_windows[j][1] /\ buff_windows[j][1] <= buff_windows[j][2]
          /\ 0 <= buff_windows[j][3] /\ buff_windows[j][3] <= buff_windows[j][4]
    /\ \A j \in 1..(Len(buff_windows) - 1) :
          /\ buff_windows[j + 1][1] = buff_windows[j][2]
          /\ buff_windows[j + 1][3] = buff_windows[j][4]
    /\ Len(buff_windows) > 0 =>
          /\ buff_windows[1][1] = 0
          /\ buff_windows[1][3] = 0
          /\ buff_windows[Len(buff_windows)][2] <= add_index
          /\ buff_windows[Len(buff_windows)][4] <= sub_index

\* no buff has been passed to add twice or to remove twice
NoneTwice ==
    \A k \in 1..Len(add_sorted) :
        /\ Cardinality(CalledAt("add", add_sorted[k])) <= 1
        /\ Cardinality(CalledAt("remove", add_sorted[k])) <= 1

\* C21: in compute_dps_window_nlogn the add cursor and the remove cursor never
\* decrease, the index ranges [add_before, add_after) and [remove_before,
\* remove_after) of the sub-intervals are contiguous and pairwise disjoint, and
\* no buff is added twice or removed twice, also when buffs share a start or
\* an end.
C21_CursorsMonotone ==
    /\ [][add_index' >= add_index /\ sub_index' >= sub_index]_vars
    /\ [](pc \in {"nlogn_cursor", "nlogn_loop", "done"} => RangesContiguous /\ NoneTwice)

\* the sweep has returned a value after it added two buffs of equal start in
\* one sub-interval and removed two buffs of equal end in one sub-interval
C21_Witness ==
    /\ pc = "done"
    /\ IsValue(ret_nlogn)
    /\ \E j \in 1..Len(buff_windows) :
          /\ buff_windows[j][2] = buff_windows[j][1] + 2
          /\ add_sorted[buff_windows[j][1] + 1].start = add_sorted[buff_windows[j][1] + 2].start
    /\ \E j \in 1..Len(buff_windows) :
          /\ buff_windows[j][4] = buff_windows[j][3] + 2
          /\ sub_buffs[buff_windows[j][3] + 1].end = sub_buffs[buff_windows[j][3] + 2].end
    /\ Cardinality({k \in 1..Len(ops) : ops[k].op = "add"}) = 2
    /\ Cardinality({k \in 1..Len(ops) : ops[k].op = "remove"}) = 2

\* both sweeps have been run a second time, with a buff of start = end added
SecondRunDone == pc = "done" /\ ret_call.kind = "first"

\* C22: a buff with start = end is a no-op: inserting one into the buff list
\* leaves the result of compute_dps_window_n2 and of compute_dps_window_nlogn
\* unchanged, for every damage-tag list and window.
C22_ZeroWidthBuffNoop ==
    SecondRunDone => (ret_n2 = ret_call.n2 /\ ret_nlogn = ret_call.nlogn)

\* the four override fields
Overrides == {"core_hit", "range_bonus", "full_burst", "element_bonus"}

\* the aggregate after the k-th call of the log
After(k) == IF k = Len(ops) THEN cache ELSE ops[k + 1].before

\* what a buff counts for in an override counter: 1 for the flag True, 0 for
\* the flag False (the flag is not set), n for the integer n
Counted(buff, key) ==
    IF buff[key].type = "bool" THEN (IF buff[key].val = 1 THEN 1 ELSE 0)
    ELSE buff[key].val

\* base_mod with no flag argument: 1 plus the term of each bonus that is active
ActiveMod(A, core, range, burst) ==
    QAdd(QAdd(QAdd(Q(1), IF core THEN QNorm(A.core_dmg, 100) ELSE Q(0)),
              IF range THEN RangeTerm(A) ELSE Q(0)),
         IF burst THEN QNorm(A.full_burst_dmg, 100) ELSE Q(0))

\* C23: for each of core_hit, range_bonus, full_burst and element_bonus,
\* add_buff increases the aggregate's counter by 1 when the buff sets the
\* field as a boolean flag and by n when it gives the integer n, whatever the
\* buff's stacks (remove_buff decreases it by the same); a bonus is active
\* exactly while its counter is > 0.
C23_OverrideCounters ==
    pc = "cache" =>
        /\ \A k \in 1..Len(ops) : \A key \in Overrides :
              (Has(ops[k].buff, key) /\ ops[k].buff[key].type \in {"bool", "int"}) =>
                  After(k)[key] = ops[k].before[key]
                      + (IF ops[k].op = "add" THEN Counted(ops[k].buff, key)
                         ELSE -Counted(ops[k].buff, key))
        /\ BaseMod(cache, FALSE, FALSE, FALSE) =
               ActiveMod(cache, cache.core_hit > 0, cache.range_bonus > 0,
                         cache.full_burst > 0)
        /\ ElementFactor(cache, FALSE) =
               (IF cache.element_bonus > 0 THEN QNorm(cache.element_dmg, 100) ELSE Q(1))

\* a buff with stacks 2, the flag core_hit and the integer range_bonus 2 was
\* added: core_hit went up by 1 and range_bonus by 2, and both are active
C23_Witness ==
    /\ pc = "cache"
    /\ Len(ops) = 1
    /\ ops[1].op = "add"
    /\ Stacks(ops[1].buff) = 2
    /\ Has(ops[1].buff, "core_hit")
    /\ ops[1].buff.core_hit = PyBool(TRUE)
    /\ ops[1].buff.range_bonus = PyInt(2)
    /\ cache.core_hit = ops[1].before.core_hit + 1
    /\ cache.range_bonus = ops[1].before.range_bonus + 2
    /\ cache.core_hit > 0

\* what a buff's crit_dmg, core_dmg, range_dmg and full_burst_dmg effects sum
\* to, times its stacks
Folded(buff) ==
    ((IF Has(buff, "crit_dmg") THEN buff.crit_dmg ELSE 0)
     + (IF Has(buff, "core_dmg") THEN buff.core_dmg ELSE 0)
     + (IF Has(buff, "range_dmg") THEN buff.range_dmg ELSE 0)
     + (IF Has(buff, "full_burst_dmg") THEN buff.full_burst_dmg ELSE 0)) * Stacks(buff)

\* C24: add_buff folds a buff's core_dmg, range_dmg and full_burst_dmg effects
\* (times stacks) into the aggregate's crit_dmg field and leaves the
\* aggregate's core_dmg, range_dmg and full_burst_dmg fields unchanged; the
\* three fields keep their baseline values after any sequence of add_buff /
\* remove_buff calls.
C24_FoldedIntoCritDmg ==
    pc = "cache" =>
        /\ \A k \in 1..Len(ops) :
              ops[k].op = "add" =>
                  /\ After(k).crit_dmg = ops[k].before.crit_dmg + Folded(ops[k].buff)
                  /\ After(k).core_dmg = ops[k].before.core_dmg
                  /\ After(k).range_dmg = ops[k].before.range_dmg
                  /\ After(k).full_burst_dmg = ops[k].before.full_burst_dmg
        /\ Len(ops) > 0 =>
              /\ cache.core_dmg = ops[1].before.core_dmg
              /\ cache.range_dmg = ops[1].before.range_dmg
              /\ cache.full_burst_dmg = ops[1].before.full_burst_dmg

\* a buff with crit_dmg 25, core_dmg 10, range_dmg 4, full_burst_dmg 6 and
\* stacks 3 was added to the default aggregate: crit_dmg went from 50 to 185
C24_Witness ==
    /\ pc = "cache"
    /\ Len(ops) = 1
    /\ ops[1].op = "add"
    /\ Has(ops[1].buff, "core_dmg")
    /\ ops[1].before.crit_dmg = 50
    /\ cache.crit_dmg = 185
    /\ cache.core_dmg = 100

\* tag k is given by start and end > start, tag l is the same tag given by
\* start and duration = end - start
SameWindow(k, l) ==
    /\ Has(damage_tags[k], "end") /\ ~Has(damage_tags[k], "duration")
    /\ damage_tags[k].end > damage_tags[k].start
    /\ Has(damage_tags[l], "duration") /\ ~Has(damage_tags[l], "end")
    /\ damage_tags[l].duration = damage_tags[k].end - damage_tags[k].start
    /\ damage_tags[l].start = damage_tags[k].start
    /\ damage_tags[l].damage = damage_tags[k].damage
    /\ damage_tags[l].tags = damage_tags[k].tags

\* C25: a damage tag given by start and end > start, without a duration key,
\* is integrated as a sustained source over [start, end), exactly like the tag
\* given by start and duration = end - start.
C25_EndLikeDuration ==
    \A k \in 1..Len(damage_tags) : \A l \in 1..Len(damage_tags) :
        SameWindow(k, l) =>
            /\ ret_n2.kind = "array" => ret_n2.val[k] = ret_n2.val[l]
            /\ ret_nlogn.kind = "array" => ret_nlogn.val[k] = ret_nlogn.val[l]

\* C26: convert_to_buffs does not change the state of the config object: after
\* any sequence of add_skill_1 / add_skill_2 / add_burst calls it leaves the
\* pending buff table (self.buffs) as it was before the call, and the list it
\* returns holds only buffs derived from the params passed to it.
C26_ConvertKeepsTable ==
    pc = "converted" =>
        /\ self_buffs = call.before
        /\ ret_call = convert_to_buffs(<<>>, call.params)

\* C27: in compute_dps_window_nlogn the add cursor and the remove cursor stay
\* within 0..len(buffs), and every read add_buffs[add_index] /
\* sub_buffs[sub_index] of the cursor loops uses an index smaller than
\* len(buffs), for every buff list and window.
C27_CursorsInRange ==
    /\ add_index \in 0..Len(buffs)
    /\ sub_index \in 0..Len(buffs)
    /\ ret_nlogn.kind # "IndexError"

\* the call passes the caller's ModifierCache and buffs=None, as both sweeps do
CacheOnlyCall == call.cache.kind = "cache" /\ call.buffs = PyNone

\* C28: evaluating damage never changes the aggregate it is given:
\* compute_damage with a cache argument, and compute_damage_matrix /
\* accumulate_avg_dmg called with that cache and buffs=None, leave every field
\* of the caller's ModifierCache unchanged.
C28_EvaluationKeepsCache ==
    (pc \in {"matrix_returned", "avg_returned", "matrix_again"} /\ CacheOnlyCall) =>
        cache = call.cache.v

\* the matrix and its average were computed from a caller's cache that holds a
\* buff, with buffs=None, and the cache is as it was
C28_Witness ==
    /\ pc = "avg_returned"
    /\ CacheOnlyCall
    /\ call.cache.v # generate_cache(PyList(<<>>))
    /\ call.tags = <<<<"core", 3>>, <<"base", 1>>>>
    /\ cache = call.cache.v

\* C29: compute_damage_matrix and accumulate_avg_dmg are repeatable: called
\* twice in a row with the same caller-owned cache and the same non-empty buffs
\* list they return the same values both times, and the cache has the same
\* field values after the calls as before.
C29_Repeatable ==
    (/\ pc = "matrix_again"
     /\ call.cache.kind = "cache"
     /\ call.buffs.kind = "list"
     /\ call.buffs.v # <<>>)
        => (ret_call.val = ret_call.first /\ cache = call.cache.v)

\* the buff was passed to add and to remove in the same sub-interval
AddedAndRemovedTogether(buff) ==
    \E a \in CalledAt("add", buff) : \E r \in CalledAt("remove", buff) :
        ops[a].at = ops[r].at

\* C30: whenever compute_dps_window_nlogn completes without an error on buffs
\* that all satisfy start <= end and a window with window_start < window_end,
\* its running aggregate at each sub-interval equals the aggregate
\* compute_dps_window_n2 builds from scratch for that sub-interval, and the
\* per-tag results of the two sweeps are equal; buffs that ended at or before
\* window_start are added and removed in the same step.
C30_SweepsAgreeWhenComplete ==
    window_start < window_end =>
        /\ (pc = "nlogn_loop" /\ i >= 1) =>
               cache = generate_cache(PyList(WindowOf(buffs, time_windows[i][1])))
        /\ (pc = "done" /\ IsValue(ret_nlogn)) =>
               /\ ret_nlogn = ret_n2
               /\ \A k \in 1..Len(buffs) :
                      buffs[k].end <= window_start => AddedAndRemovedTogether(buffs[k])

====
